---- MODULE Spec2Model ----
(***************************************************************************)
(* Model of the weekly question/answer bot of src/index.js: the Users,     *)
(* Answers and MonthlyInsights sheets, the inbound event handlers          *)
(* (handleTextMessage, handlePostback) and the four scheduled batch        *)
(* triggers (sendMondayThemeSelection, sendDailyQuestion,                  *)
(* sendSaturdayReview, sendMonthlyReview).                                 *)
(*                                                                         *)
(* Time is the number of whole days since 1970-01-01; the process clock is *)
(* taken to run in UTC, so getDay()/getFullYear() and toISOString() agree  *)
(* on the date.  A timestamp is modelled by its date, which is all the     *)
(* code compares (toISOString().split('T')[0], getMonth(), getFullYear()). *)
(***************************************************************************)
EXTENDS Integers, Sequences, FiniteSets, TLC

(***************************************************************************)
(* Bounds of the model.                                                    *)
(***************************************************************************)
MaxDay == 4             \* number of day changes after the first day
MaxAnswers == 2         \* rows the Answers sheet may grow to
MaxNoResponseWeek == 2  \* cap of the noResponseWeek counter
MaxInsights == 1        \* rows the MonthlyInsights sheet may grow to
RandomSteps == 2        \* values Math.random() is drawn from: 0/n .. (n-1)/n
CalendarDays == 2574    \* number of dates the week number is computed for
MaxRetries == 5         \* largest maxRetries safeLoadInfo is called with
WeekDays == 7           \* number of day changes of the specification of a week

UserIds == {"u1", "u2"}
Senders == {"u1"}       \* the users who send events
Texts == {"hello"}

(***************************************************************************)
(* Calendar: JavaScript Date arithmetic on day numbers.                    *)
(***************************************************************************)
\* Date.UTC(y, 0, 1) / 86400000
DaysBeforeYear(y) ==
    365 * (y - 1970) + ((y - 1969) \div 4) - ((y - 1901) \div 100)
        + ((y - 1601) \div 400)

RECURSIVE YearFrom(_, _)
YearFrom(y, d) == IF DaysBeforeYear(y + 1) <= d THEN YearFrom(y + 1, d) ELSE y

\* Date.prototype.getFullYear
getFullYear(d) == YearFrom(1970 + (d \div 366), d)

IsLeapYear(y) == (y % 4 = 0 /\ y % 100 # 0) \/ y % 400 = 0

\* length of month m (0 = January) of year y
DaysInMonth(y, m) ==
    IF m = 1 THEN (IF IsLeapYear(y) THEN 29 ELSE 28)
    ELSE IF m \in {3, 5, 8, 10} THEN 30 ELSE 31

RECURSIVE MonthFrom(_, _, _)
MonthFrom(y, m, rest) ==
    IF rest >= DaysInMonth(y, m) THEN MonthFrom(y, m + 1, rest - DaysInMonth(y, m))
    ELSE m

\* Date.prototype.getMonth (0 = January)
getMonth(d) == MonthFrom(getFullYear(d), 0, d - DaysBeforeYear(getFullYear(d)))

\* Date.prototype.getDay (0 = Sunday); 1970-01-01 was a Thursday
getDay(d) == (d + 4) % 7

\* getWeekNumber counting the weeks from January 1st
getWeekNumber_FromJan1(date) ==
    LET yearStart == DaysBeforeYear(getFullYear(date))
    IN  (((date - yearStart) + 1) + 6) \div 7

getWeekNumber(date) ==
    LET dayNum    == IF getDay(date) = 0 THEN 7 ELSE getDay(date)
        d         == date + 4 - dayNum
        yearStart == DaysBeforeYear(getFullYear(d))
    IN  (((d - yearStart) + 1) + 6) \div 7

WeekString(date) ==
    LET year    == getFullYear(date)
        weekNum == getWeekNumber(date)
    IN  ToString(year) \o "-W"
          \o (IF weekNum < 10 THEN "0" \o ToString(weekNum) ELSE ToString(weekNum))

DayString(date) ==
    LET dayMap == <<"MON", "TUE", "WED", "THU", "FRI", "SAT">>
    IN  IF getDay(date) = 0 THEN "SUN" ELSE dayMap[getDay(date)]

\* the first day of the model: Friday 2024-12-27
StartDay == DaysBeforeYear(2024) + 361

(***************************************************************************)
(* Content sheets (read-only for the program).                             *)
(***************************************************************************)
THEME_MAP == {"SELF", "CREATION", "FAMILY"}

QRow(id, theme, day, active) ==
    [QuestionID |-> id, Theme |-> theme, Day |-> day, Active |-> active]

\* the rows of the Questions sheet: SELF has a question for every weekday
\* (two on Monday, one more inactive on Friday), FAMILY only for Monday and
\* Tuesday
QuestionRows ==
    << QRow("Q_SELF_MON_1", "SELF", "MON", TRUE),
       QRow("Q_SELF_MON_2", "SELF", "MON", TRUE),
       QRow("Q_SELF_TUE_1", "SELF", "TUE", TRUE),
       QRow("Q_SELF_WED_1", "SELF", "WED", TRUE),
       QRow("Q_SELF_THU_1", "SELF", "THU", TRUE),
       QRow("Q_SELF_FRI_1", "SELF", "FRI", TRUE),
       QRow("Q_SELF_FRI_2", "SELF", "FRI", FALSE),
       QRow("Q_FAMILY_MON_1", "FAMILY", "MON", TRUE),
       QRow("Q_FAMILY_TUE_1", "FAMILY", "TUE", TRUE) >>

\* every MessageID the code looks up
AllTemplates ==
    { "WELCOME_MONDAY", "WELCOME_OTHER_DAY", "WELCOME_FALLBACK", "GENERIC_ERROR",
      "PROMPT_THEME_CHOICE", "HEARD", "SATURDAY_END", "ACK_ACTIVE", "FALLBACK_GENERAL",
      "START_READY", "START_READY_FALLBACK", "THEME_SELECT", "THEME_SELECT_FALLBACK",
      "HOW_TO_PLAY", "HOW_TO_PLAY_FALLBACK", "LATER", "LATER_FALLBACK",
      "CONFIRM_SELF", "CONFIRM_CREATION", "CONFIRM_FAMILY", "THEME_CONFIRM_FALLBACK",
      "MONDAY_WEEK1", "SKIP_YESTERDAY", "DAILY_QUESTION",
      "SATURDAY_NO_RESPONSE", "SATURDAY_START", "NO_WEEKLY_RECORDS",
      "SATURDAY_SHOW_RECORD", "RECORDS_HEADER_FALLBACK",
      "NO_MONTHLY_RECORDS", "MONTHLY_AI_PROMPT", "AI_ERROR_MONTHLY" }

(***************************************************************************)
(* State.                                                                  *)
(***************************************************************************)
VARIABLES
    now,        \* the current date (day number)
    templates,  \* MessageIDs present and active in the Messages sheet
    users,      \* rows of the Users sheet, in sheet order
    answers,    \* rows of the Answers sheet, in sheet order
    insights,   \* rows of the MonthlyInsights sheet
    out,        \* messages handed to the transport by the last operation
    last,       \* the last operation: what it was and what it returned
    flight      \* the handlers of the events of one webhook call, run together

vars == <<now, templates, users, answers, insights, out, last, flight>>

\* the sheets and the outbox, as the value the handlers thread through
Store == [users |-> users, answers |-> answers, insights |-> insights, out |-> <<>>]

Msg(to, via, id, arg) == [to |-> to, via |-> via, id |-> id, arg |-> arg]

Send(S, m) == [S EXCEPT !.out = Append(@, m)]

\* rows.find(row => row.get('userId') === userId): index of the row, 0 if none
FindRow(rows, userId) ==
    IF \E i \in 1..Len(rows) : rows[i].userId = userId
    THEN CHOOSE i \in 1..Len(rows) :
             /\ rows[i].userId = userId
             /\ \A j \in 1..(i - 1) : rows[j].userId # userId
    ELSE 0

\* the stored status of a user, "" when the user has no row
StatusOf(rows, userId) ==
    IF FindRow(rows, userId) = 0 THEN "" ELSE rows[FindRow(rows, userId)].status


(***************************************************************************)
(* Store operations.                                                       *)
(***************************************************************************)
NewUserRow(userId) ==
    [userId |-> userId, status |-> "new", currentTheme |-> "", currentWeek |-> "",
     lastActive |-> 0, lastQuestionId |-> "", noResponseWeek |-> 0]

\* the sheets after getOrCreateUser; the user it returns is UserOf of them
getOrCreateUser(S, userId) ==
    IF FindRow(S.users, userId) # 0 THEN S
    ELSE [S EXCEPT !.users = Append(@, NewUserRow(userId))]

UserOf(S, userId) == S.users[FindRow(S.users, userId)]

updateUserStatus(S, userId, status) ==
    LET i == FindRow(S.users, userId)
    IN  IF i = 0 THEN S
        ELSE [S EXCEPT !.users[i].status = status, !.users[i].lastActive = now]

\* params.theme of a payload that carries no theme
Undefined == "undefined"

\* the cell after row.set(column, value) and row.save(): the sheet keeps the
\* old value of a cell that is sent undefined
Cell(old, value) == IF value = Undefined THEN old ELSE value

\* saveUserTheme without the write of currentWeek
saveUserTheme_StaleWeek(S, userId, theme) ==
    LET i == FindRow(S.users, userId)
    IN  IF i = 0 THEN S
        ELSE [S EXCEPT !.users[i].status = "active",
                       !.users[i].currentTheme = Cell(@, theme),
                       !.users[i].lastActive = now]

saveUserTheme(S, userId, theme) ==
    LET i == FindRow(S.users, userId)
    IN  IF i = 0 THEN S
        ELSE [S EXCEPT !.users[i].status = "active",
                       !.users[i].currentTheme = Cell(@, theme),
                       !.users[i].currentWeek = WeekString(now),
                       !.users[i].lastActive = now]

\* getMessage(id) finds an active row
HasMessage(id) == id \in templates

\* the active Questions rows for (theme, day)
MatchingQuestions(theme, day) ==
    SelectSeq(QuestionRows, LAMBDA row : row.Theme = theme /\ row.Day = day /\ row.Active)

\* Math.floor(Math.random() * n), Math.random() being r / RandomSteps
RandomIndex(r, n) == (r * n) \div RandomSteps

\* getQuestionById: the id it finds, "N/A" for the caller's fallback
QuestionIdOrNA(questionId) ==
    IF \E k \in 1..Len(QuestionRows) : QuestionRows[k].QuestionID = questionId
    THEN questionId ELSE "N/A"

\* saveUserAnswer without the reset of noResponseWeek
saveUserAnswer_KeepCounter(S, userId, answer) ==
    LET S1   == getOrCreateUser(S, userId)
        user == UserOf(S1, userId)
        row  == [userId |-> userId, week |-> user.currentWeek, theme |-> user.currentTheme,
                 day |-> DayString(now), questionId |-> QuestionIdOrNA(user.lastQuestionId),
                 answer |-> answer, skipped |-> FALSE, timestamp |-> now]
        i    == FindRow(S1.users, userId)
    IN  IF user.lastQuestionId = "" THEN S1
        ELSE [S1 EXCEPT !.answers = Append(@, row),
                        !.users[i].lastQuestionId = ""]

\* saveUserAnswer writing over the user's latest answer row
saveUserAnswer_Replace(S, userId, answer) ==
    LET S1   == getOrCreateUser(S, userId)
        user == UserOf(S1, userId)
        row  == [userId |-> userId, week |-> user.currentWeek, theme |-> user.currentTheme,
                 day |-> DayString(now), questionId |-> QuestionIdOrNA(user.lastQuestionId),
                 answer |-> answer, skipped |-> FALSE, timestamp |-> now]
        i    == FindRow(S1.users, userId)
        own  == { k \in 1..Len(S1.answers) : S1.answers[k].userId = userId }
        at   == CHOOSE k \in own : \A j \in own : j <= k
    IN  IF user.lastQuestionId = "" THEN S1
        ELSE [S1 EXCEPT !.answers = IF own = {} THEN Append(@, row)
                                    ELSE [@ EXCEPT ![at] = row],
                        !.users[i].noResponseWeek = 0,
                        !.users[i].lastQuestionId = ""]

\* saveUserAnswer not looking the question up
saveUserAnswer_NoQuestion(S, userId, answer) ==
    LET S1   == getOrCreateUser(S, userId)
        user == UserOf(S1, userId)
        row  == [userId |-> userId, week |-> user.currentWeek, theme |-> user.currentTheme,
                 day |-> DayString(now), questionId |-> "N/A",
                 answer |-> answer, skipped |-> FALSE, timestamp |-> now]
        i    == FindRow(S1.users, userId)
    IN  IF user.lastQuestionId = "" THEN S1
        ELSE [S1 EXCEPT !.answers = Append(@, row),
                        !.users[i].noResponseWeek = 0,
                        !.users[i].lastQuestionId = ""]

saveUserAnswer(S, userId, answer) ==
    LET S1   == getOrCreateUser(S, userId)
        user == UserOf(S1, userId)
        row  == [userId |-> userId, week |-> user.currentWeek, theme |-> user.currentTheme,
                 day |-> DayString(now), questionId |-> QuestionIdOrNA(user.lastQuestionId),
                 answer |-> answer, skipped |-> FALSE, timestamp |-> now]
        i    == FindRow(S1.users, userId)
    IN  IF user.lastQuestionId = "" THEN S1
        ELSE [S1 EXCEPT !.answers = Append(@, row),
                        !.users[i].noResponseWeek = 0,
                        !.users[i].lastQuestionId = ""]

(***************************************************************************)
(* Answer queries.                                                         *)
(***************************************************************************)
\* checkTodayAnswer comparing with yesterday's date
checkTodayAnswer_Yesterday(S, userId) ==
    \E k \in 1..Len(S.answers) :
        S.answers[k].userId = userId /\ S.answers[k].timestamp = now - 1

checkTodayAnswer(S, userId) ==
    \E k \in 1..Len(S.answers) :
        S.answers[k].userId = userId /\ S.answers[k].timestamp = now

\* scans from the last row; stops with false at the first row of the user
\* that is older than 24 hours
RECURSIVE ScanYesterday(_, _, _)
ScanYesterday(rows, userId, k) ==
    IF k = 0 THEN FALSE
    ELSE IF rows[k].userId # userId THEN ScanYesterday(rows, userId, k - 1)
    ELSE IF rows[k].timestamp = now - 1 THEN TRUE
    ELSE IF rows[k].timestamp < now - 1 THEN FALSE
    ELSE ScanYesterday(rows, userId, k - 1)

checkYesterdayAnswer(S, userId) == ScanYesterday(S.answers, userId, Len(S.answers))

countWeeklyResponses(S, userId, week) ==
    Cardinality({ k \in 1..Len(S.answers) :
                    /\ S.answers[k].userId = userId
                    /\ S.answers[k].week = week
                    /\ S.answers[k].skipped = FALSE })

getWeeklyAnswerRows(S, userId) ==
    IF FindRow(S.users, userId) = 0 THEN <<>>
    ELSE SelectSeq(S.answers, LAMBDA row :
             row.userId = userId /\ row.week = UserOf(S, userId).currentWeek)

\* answers of the user dated in the current month of the current year
MonthlyAnswers(S, userId) ==
    SelectSeq(S.answers, LAMBDA row :
        /\ row.userId = userId
        /\ getMonth(row.timestamp) = getMonth(now)
        /\ getFullYear(row.timestamp) = getFullYear(now))

\* hasEnoughMonthlyData content with any answer of the month
hasEnoughMonthlyData_AnyData(S, userId) ==
    LET monthlyAnswers == MonthlyAnswers(S, userId)
        uniqueWeeks    == { monthlyAnswers[k].week : k \in 1..Len(monthlyAnswers) }
    IN  IF Len(monthlyAnswers) = 0 THEN FALSE ELSE Cardinality(uniqueWeeks) >= 1

hasEnoughMonthlyData(S, userId) ==
    LET monthlyAnswers == MonthlyAnswers(S, userId)
        uniqueWeeks    == { monthlyAnswers[k].week : k \in 1..Len(monthlyAnswers) }
    IN  IF Len(monthlyAnswers) = 0 THEN FALSE ELSE Cardinality(uniqueWeeks) >= 2

(***************************************************************************)
(* Replies.                                                                *)
(***************************************************************************)
\* the text replyWithText sends: the template, else the fallback template,
\* else the built-in error text
ReplyTextId(messageId, fallbackId) ==
    IF HasMessage(messageId) THEN messageId
    ELSE IF HasMessage(fallbackId) THEN fallbackId
    ELSE "TEXT_SYSTEM_ERROR"

replyWithText(S, userId, messageId, fallbackId) ==
    Send(S, Msg(userId, "reply", ReplyTextId(messageId, fallbackId), ""))

\* sendWelcomeMessage writing a status outside the set on a day other than Monday
sendWelcomeMessage_Waiting(S, userId) ==
    LET today     == getDay(now)
        messageId == IF today = 1 THEN "WELCOME_MONDAY" ELSE "WELCOME_OTHER_DAY"
        status    == IF today = 1 THEN "waiting_theme" ELSE "waiting"
    IN  IF HasMessage(messageId)
        THEN updateUserStatus(Send(S, Msg(userId, "reply", messageId, "")), userId, status)
        ELSE replyWithText(S, userId, "WELCOME_FALLBACK", "GENERIC_ERROR")

sendWelcomeMessage(S, userId) ==
    LET today     == getDay(now)
        messageId == IF today = 1 THEN "WELCOME_MONDAY" ELSE "WELCOME_OTHER_DAY"
        status    == IF today = 1 THEN "waiting_theme" ELSE "waiting_monday"
    IN  IF HasMessage(messageId)
        THEN updateUserStatus(Send(S, Msg(userId, "reply", messageId, "")), userId, status)
        ELSE replyWithText(S, userId, "WELCOME_FALLBACK", "GENERIC_ERROR")

handleThemeSelection(S, userId, theme) ==
    LET S1        == saveUserTheme(S, userId, theme)
        messageId == "CONFIRM_" \o theme
        textId    == IF HasMessage(messageId) THEN messageId
                     ELSE IF HasMessage("THEME_CONFIRM_FALLBACK") THEN "THEME_CONFIRM_FALLBACK"
                     ELSE "TEXT_THEME_CONFIRM"
        today     == getDay(now)
        buttons   == IF today >= 1 /\ today <= 5 THEN "action=start_question" ELSE ""
    IN  Send(S1, Msg(userId, "reply", textId, buttons))

\* the text getWeeklyRecords builds
getWeeklyRecords(S, userId) ==
    IF Len(getWeeklyAnswerRows(S, userId)) = 0
    THEN (IF HasMessage("NO_WEEKLY_RECORDS") THEN "NO_WEEKLY_RECORDS"
          ELSE IF HasMessage("GENERIC_ERROR") THEN "GENERIC_ERROR"
          ELSE "TEXT_NO_WEEKLY_RECORDS")
    ELSE "TRANSCRIPT"

(***************************************************************************)
(* The daily question for one user.  r is the value of Math.random();      *)
(* fault tells which collaborator call made for this user throws: "read"   *)
(* (the first store read), "send" (pushMessage), "write" (row.save) or     *)
(* "ok" (none).  The result carries the returned {sent, reason} and        *)
(* whether the call threw instead of returning.                            *)
(***************************************************************************)
\* isSameDay comparing with yesterday's date
isSameDay_Yesterday(lastActive) == lastActive = now - 1

\* lastActiveDate.toISOString().split('T')[0] === today.toISOString().split('T')[0]
isSameDay(lastActive) == lastActive = now

DailyResult(S, sent, reason, threw) ==
    [S |-> S, sent |-> sent, reason |-> reason, threw |-> threw]

\* sendDailyQuestionForUser saving lastActive when it skips for the status
sendDailyQuestionForUser_Touch(S, userId, r, fault) ==
    LET i         == FindRow(S.users, userId)
        row       == S.users[i]
        dayString == DayString(now)
        status    == row.status
        theme     == row.currentTheme
        matching  == MatchingQuestions(theme, dayString)
        question  == matching[RandomIndex(r, Len(matching)) + 1]
        notice    == getDay(now) # 1 /\ ~checkYesterdayAnswer(S, userId)
                        /\ HasMessage("SKIP_YESTERDAY")
        textId    == IF HasMessage("DAILY_QUESTION") THEN "DAILY_QUESTION"
                     ELSE "TEXT_DAILY_QUESTION"
        message   == Msg(userId, "push",
                         (IF notice THEN "SKIP_YESTERDAY+" ELSE "") \o textId,
                         question.QuestionID)
        saved     == [S EXCEPT !.out = Append(@, message),
                               !.users[i].status = "waiting_answer",
                               !.users[i].lastQuestionId = question.QuestionID,
                               !.users[i].lastActive = now]
    IN  IF fault = "read" THEN DailyResult(S, FALSE, "threw", TRUE)
        ELSE IF i = 0 THEN DailyResult(S, FALSE, "User not found", FALSE)
        ELSE IF checkTodayAnswer(S, userId)
            THEN DailyResult(S, FALSE, "Already answered today", FALSE)
        ELSE IF status # "active" /\ status # "waiting_answer"
            THEN DailyResult([S EXCEPT !.users[i].lastActive = now], FALSE,
                             "Status is not active or waiting_answer", FALSE)
        ELSE IF status = "waiting_answer" /\ row.lastActive # 0 /\ isSameDay(row.lastActive)
            THEN DailyResult(S, FALSE, "Already sent today", FALSE)
        ELSE IF theme = "" THEN DailyResult(S, FALSE, "No theme set", FALSE)
        ELSE IF Len(matching) = 0 THEN DailyResult(S, FALSE, "No question found", FALSE)
        ELSE IF fault = "send"
            THEN DailyResult(S, FALSE, "Failed to send message", FALSE)
        ELSE IF fault = "write"
            THEN DailyResult(Send(S, message), FALSE, "Failed to send message", FALSE)
        ELSE DailyResult(saved, TRUE, "Success", FALSE)

\* sendDailyQuestionForUser skipping a pending question of any day
sendDailyQuestionForUser_Stall(S, userId, r, fault) ==
    LET i         == FindRow(S.users, userId)
        row       == S.users[i]
        dayString == DayString(now)
        status    == row.status
        theme     == row.currentTheme
        matching  == MatchingQuestions(theme, dayString)
        question  == matching[RandomIndex(r, Len(matching)) + 1]
        notice    == getDay(now) # 1 /\ ~checkYesterdayAnswer(S, userId)
                        /\ HasMessage("SKIP_YESTERDAY")
        textId    == IF HasMessage("DAILY_QUESTION") THEN "DAILY_QUESTION"
                     ELSE "TEXT_DAILY_QUESTION"
        message   == Msg(userId, "push",
                         (IF notice THEN "SKIP_YESTERDAY+" ELSE "") \o textId,
                         question.QuestionID)
        saved     == [S EXCEPT !.out = Append(@, message),
                               !.users[i].status = "waiting_answer",
                               !.users[i].lastQuestionId = question.QuestionID,
                               !.users[i].lastActive = now]
    IN  IF fault = "read" THEN DailyResult(S, FALSE, "threw", TRUE)
        ELSE IF i = 0 THEN DailyResult(S, FALSE, "User not found", FALSE)
        ELSE IF checkTodayAnswer(S, userId)
            THEN DailyResult(S, FALSE, "Already answered today", FALSE)
        ELSE IF status # "active" /\ status # "waiting_answer"
            THEN DailyResult(S, FALSE, "Status is not active or waiting_answer", FALSE)
        ELSE IF status = "waiting_answer" /\ row.lastActive # 0
            THEN DailyResult(S, FALSE, "Already sent today", FALSE)
        ELSE IF theme = "" THEN DailyResult(S, FALSE, "No theme set", FALSE)
        ELSE IF Len(matching) = 0 THEN DailyResult(S, FALSE, "No question found", FALSE)
        ELSE IF fault = "send"
            THEN DailyResult(S, FALSE, "Failed to send message", FALSE)
        ELSE IF fault = "write"
            THEN DailyResult(Send(S, message), FALSE, "Failed to send message", FALSE)
        ELSE DailyResult(saved, TRUE, "Success", FALSE)

sendDailyQuestionForUser(S, userId, r, fault) ==
    LET i         == FindRow(S.users, userId)
        row       == S.users[i]
        dayString == DayString(now)
        status    == row.status
        theme     == row.currentTheme
        matching  == MatchingQuestions(theme, dayString)
        question  == matching[RandomIndex(r, Len(matching)) + 1]
        notice    == getDay(now) # 1 /\ ~checkYesterdayAnswer(S, userId)
                        /\ HasMessage("SKIP_YESTERDAY")
        textId    == IF HasMessage("DAILY_QUESTION") THEN "DAILY_QUESTION"
                     ELSE "TEXT_DAILY_QUESTION"
        message   == Msg(userId, "push",
                         (IF notice THEN "SKIP_YESTERDAY+" ELSE "") \o textId,
                         question.QuestionID)
        saved     == [S EXCEPT !.out = Append(@, message),
                               !.users[i].status = "waiting_answer",
                               !.users[i].lastQuestionId = question.QuestionID,
                               !.users[i].lastActive = now]
    IN  IF fault = "read" THEN DailyResult(S, FALSE, "threw", TRUE)
        ELSE IF i = 0 THEN DailyResult(S, FALSE, "User not found", FALSE)
        ELSE IF checkTodayAnswer(S, userId)
            THEN DailyResult(S, FALSE, "Already answered today", FALSE)
        ELSE IF status # "active" /\ status # "waiting_answer"
            THEN DailyResult(S, FALSE, "Status is not active or waiting_answer", FALSE)
        ELSE IF status = "waiting_answer" /\ row.lastActive # 0 /\ isSameDay(row.lastActive)
            THEN DailyResult(S, FALSE, "Already sent today", FALSE)
        ELSE IF theme = "" THEN DailyResult(S, FALSE, "No theme set", FALSE)
        ELSE IF Len(matching) = 0 THEN DailyResult(S, FALSE, "No question found", FALSE)
        ELSE IF fault = "send"
            THEN DailyResult(S, FALSE, "Failed to send message", FALSE)
        ELSE IF fault = "write"
            THEN DailyResult(Send(S, message), FALSE, "Failed to send message", FALSE)
        ELSE DailyResult(saved, TRUE, "Success", FALSE)

(***************************************************************************)
(* Inbound events.                                                         *)
(***************************************************************************)
\* handleTextMessage without waiting_monday in the first branch
handleTextMessage_NoRewelcome(S, userId, text) ==
    LET S1   == getOrCreateUser(S, userId)
        user == UserOf(S1, userId)
    IN  IF user.status \in {"", "new", "idle"}
            THEN sendWelcomeMessage(S1, userId)
        ELSE IF user.status = "waiting_theme"
            THEN replyWithText(S1, userId, "PROMPT_THEME_CHOICE", "GENERIC_ERROR")
        ELSE IF user.status = "waiting_answer"
            THEN updateUserStatus(
                     replyWithText(saveUserAnswer(S1, userId, text),
                                   userId, "HEARD", "GENERIC_ERROR"),
                     userId, "active")
        ELSE IF user.status = "saturday_showed_record"
            THEN updateUserStatus(
                     replyWithText(S1, userId, "SATURDAY_END", "GENERIC_ERROR"),
                     userId, "active")
        ELSE IF user.status = "active"
            THEN replyWithText(S1, userId, "ACK_ACTIVE", "GENERIC_ERROR")
        ELSE replyWithText(S1, userId, "FALLBACK_GENERAL", "GENERIC_ERROR")

\* handleTextMessage writing the row of an active user
handleTextMessage_TouchActive(S, userId, text) ==
    LET S1   == getOrCreateUser(S, userId)
        user == UserOf(S1, userId)
    IN  IF user.status \in {"", "new", "idle", "waiting_monday"}
            THEN sendWelcomeMessage(S1, userId)
        ELSE IF user.status = "waiting_theme"
            THEN replyWithText(S1, userId, "PROMPT_THEME_CHOICE", "GENERIC_ERROR")
        ELSE IF user.status = "waiting_answer"
            THEN updateUserStatus(
                     replyWithText(saveUserAnswer(S1, userId, text),
                                   userId, "HEARD", "GENERIC_ERROR"),
                     userId, "active")
        ELSE IF user.status = "saturday_showed_record"
            THEN updateUserStatus(
                     replyWithText(S1, userId, "SATURDAY_END", "GENERIC_ERROR"),
                     userId, "active")
        ELSE IF user.status = "active"
            THEN updateUserStatus(
                     replyWithText(S1, userId, "ACK_ACTIVE", "GENERIC_ERROR"),
                     userId, "active")
        ELSE replyWithText(S1, userId, "FALLBACK_GENERAL", "GENERIC_ERROR")

handleTextMessage(S, userId, text) ==
    LET S1   == getOrCreateUser(S, userId)
        user == UserOf(S1, userId)
    IN  IF user.status \in {"", "new", "idle", "waiting_monday"}
            THEN sendWelcomeMessage(S1, userId)
        ELSE IF user.status = "waiting_theme"
            THEN replyWithText(S1, userId, "PROMPT_THEME_CHOICE", "GENERIC_ERROR")
        ELSE IF user.status = "waiting_answer"
            THEN updateUserStatus(
                     replyWithText(saveUserAnswer(S1, userId, text),
                                   userId, "HEARD", "GENERIC_ERROR"),
                     userId, "active")
        ELSE IF user.status = "saturday_showed_record"
            THEN updateUserStatus(
                     replyWithText(S1, userId, "SATURDAY_END", "GENERIC_ERROR"),
                     userId, "active")
        ELSE IF user.status = "active"
            THEN replyWithText(S1, userId, "ACK_ACTIVE", "GENERIC_ERROR")
        ELSE replyWithText(S1, userId, "FALLBACK_GENERAL", "GENERIC_ERROR")

\* start_now / start_week and ready: the template, else its fallback; with
\* neither, reading .message of null throws before anything is sent
TemplateOrFallback(messageId, fallbackId) ==
    IF HasMessage(messageId) THEN messageId
    ELSE IF HasMessage(fallbackId) THEN fallbackId
    ELSE ""

\* handlePostback without the status update of the later case
handlePostback_LaterKeeps(S, userId, params, r) ==
    LET action == params.action
    IN  IF action \in {"start_now", "start_week"} THEN
            LET textId == TemplateOrFallback("START_READY", "START_READY_FALLBACK")
            IN  IF textId = "" THEN S
                ELSE updateUserStatus(Send(S, Msg(userId, "reply", textId, "")),
                                      userId, "waiting_theme")
        ELSE IF action = "ready" THEN
            LET textId == TemplateOrFallback("THEME_SELECT", "THEME_SELECT_FALLBACK")
            IN  IF textId = "" THEN S
                ELSE Send(S, Msg(userId, "reply", textId, ""))
        ELSE IF action = "select_theme" THEN handleThemeSelection(S, userId, params.theme)
        ELSE IF action = "start_question" THEN sendDailyQuestionForUser(S, userId, r, "ok").S
        ELSE IF action = "how_to_play"
            THEN replyWithText(S, userId, "HOW_TO_PLAY", "HOW_TO_PLAY_FALLBACK")
        ELSE IF action = "later"
            THEN replyWithText(S, userId, "LATER", "LATER_FALLBACK")
        ELSE IF action = "show_record"
            THEN updateUserStatus(
                     Send(S, Msg(userId, "reply", getWeeklyRecords(S, userId), "")),
                     userId, "saturday_showed_record")
        ELSE S

\* params is the parsed postback.data: its action and its theme
handlePostback(S, userId, params, r) ==
    LET action == params.action
    IN  IF action \in {"start_now", "start_week"} THEN
            LET textId == TemplateOrFallback("START_READY", "START_READY_FALLBACK")
            IN  IF textId = "" THEN S
                ELSE updateUserStatus(Send(S, Msg(userId, "reply", textId, "")),
                                      userId, "waiting_theme")
        ELSE IF action = "ready" THEN
            LET textId == TemplateOrFallback("THEME_SELECT", "THEME_SELECT_FALLBACK")
            IN  IF textId = "" THEN S
                ELSE Send(S, Msg(userId, "reply", textId, ""))
        ELSE IF action = "select_theme" THEN handleThemeSelection(S, userId, params.theme)
        ELSE IF action = "start_question" THEN sendDailyQuestionForUser(S, userId, r, "ok").S
        ELSE IF action = "how_to_play"
            THEN replyWithText(S, userId, "HOW_TO_PLAY", "HOW_TO_PLAY_FALLBACK")
        ELSE IF action = "later"
            THEN updateUserStatus(replyWithText(S, userId, "LATER", "LATER_FALLBACK"),
                                  userId, "waiting_monday")
        ELSE IF action = "show_record"
            THEN updateUserStatus(
                     Send(S, Msg(userId, "reply", getWeeklyRecords(S, userId), "")),
                     userId, "saturday_showed_record")
        ELSE S

(***************************************************************************)
(* Scheduled batch triggers.  Each loop runs over the rows read at its     *)
(* start; acc carries the sheets, the outbox, the outcome of every row     *)
(* processed so far, the loop's counters, and whether an exception left    *)
(* the loop.  faults maps a user id to the collaborator call that throws   *)
(* while that user is processed ("ok" for none).                           *)
(***************************************************************************)
Faults == {"ok", "send", "read", "write"}
\* the transport may fail for any users of a run, the store for one
FaultMaps ==
    { f \in [UserIds -> Faults] :
        \/ \A u \in UserIds : f[u] \in {"ok", "send"}
        \/ Cardinality({ u \in UserIds : f[u] # "ok" }) = 1 }
NoFaults == [u \in UserIds |-> "ok"]
RandomMaps == [UserIds -> 0..(RandomSteps - 1)]
ZeroDraws == [u \in UserIds |-> 0]

StartAcc(S) ==
    [S |-> S, results |-> <<>>, sent |-> 0, skipped |-> 0, errors |-> 0, aborted |-> FALSE]

Outcome(userId, outcome) == [userId |-> userId, outcome |-> outcome]

Sent(acc, S, userId, outcome) ==
    [acc EXCEPT !.S = S, !.sent = @ + 1,
                !.results = Append(@, Outcome(userId, outcome))]

Skipped(acc, userId, outcome) ==
    [acc EXCEPT !.skipped = @ + 1, !.results = Append(@, Outcome(userId, outcome))]

\* a catch block that counts the error
Caught(acc, S, userId) ==
    [acc EXCEPT !.S = S, !.errors = @ + 1,
                !.results = Append(@, Outcome(userId, "error"))]

\* an exception no handler of the loop catches
Thrown(acc, userId) ==
    [acc EXCEPT !.aborted = TRUE, !.results = Append(@, Outcome(userId, "threw"))]

\* ---- weekly theme prompt ----
\* shouldSend without the comparison of the week
shouldSend_AnyWeek(row) ==
    \/ row.status = "waiting_monday"
    \/ row.status = "saturday_showed_record"
    \/ row.status = "active"

shouldSend(row) ==
    \/ row.status = "waiting_monday"
    \/ row.status = "saturday_showed_record"
    \/ (row.status = "active" /\ row.currentWeek # WeekString(now))

\* MondayUser without the try/catch around the push
MondayUser_NoCatch(acc, rows, k, faults) ==
    LET row     == rows[k]
        userId  == row.userId
        message == Msg(userId, "push", "MONDAY_WEEK1", "")
        saved   == [row EXCEPT !.status = "waiting_theme", !.lastActive = now]
    IN  IF shouldSend(row) THEN
            IF faults[userId] = "send" THEN Thrown(acc, userId)
            ELSE IF faults[userId] = "write" THEN Thrown(Send(acc.S, message), userId)
            ELSE Sent(acc, [Send(acc.S, message) EXCEPT !.users[k] = saved], userId, "sent")
        ELSE Skipped(acc, userId, "skipped")

\* one iteration of the loop of sendMondayThemeSelection, for rows[k]
MondayUser(acc, rows, k, faults) ==
    LET row     == rows[k]
        userId  == row.userId
        message == Msg(userId, "push", "MONDAY_WEEK1", "")
        saved   == [row EXCEPT !.status = "waiting_theme", !.lastActive = now]
    IN  IF shouldSend(row) THEN
            IF faults[userId] = "send" THEN Caught(acc, acc.S, userId)
            ELSE IF faults[userId] = "write" THEN Caught(acc, Send(acc.S, message), userId)
            ELSE Sent(acc, [Send(acc.S, message) EXCEPT !.users[k] = saved], userId, "sent")
        ELSE Skipped(acc, userId, "skipped")

RECURSIVE MondayLoop(_, _, _, _)
MondayLoop(acc, rows, k, faults) ==
    IF k > Len(rows) \/ acc.aborted THEN acc
    ELSE MondayLoop(MondayUser(acc, rows, k, faults), rows, k + 1, faults)

\* the returned summary; <<>> stands for undefined
NoSummary == <<>>

sendMondayThemeSelection(S, faults) ==
    LET acc == MondayLoop(StartAcc(S), S.users, 1, faults)
    IN  IF ~HasMessage("MONDAY_WEEK1")
        THEN [acc |-> StartAcc(S), summary |-> NoSummary]
        ELSE [acc |-> acc,
              summary |-> [totalUsers |-> Len(S.users), sentCount |-> acc.sent,
                           skippedCount |-> acc.skipped, errorCount |-> acc.errors]]

\* ---- daily question ----
\* one iteration of the loop of sendDailyQuestion, for rows[k]
DailyUser(acc, rows, k, rnd, faults) ==
    LET userId == rows[k].userId
        result == sendDailyQuestionForUser(acc.S, userId, rnd[userId], faults[userId])
    IN  IF result.threw THEN Thrown(acc, userId)
        ELSE IF result.sent THEN Sent(acc, result.S, userId, result.reason)
        ELSE [Skipped(acc, userId, result.reason) EXCEPT !.S = result.S]

RECURSIVE DailyLoop(_, _, _, _, _)
DailyLoop(acc, rows, k, rnd, faults) ==
    IF k > Len(rows) \/ acc.aborted THEN acc
    ELSE DailyLoop(DailyUser(acc, rows, k, rnd, faults), rows, k + 1, rnd, faults)

sendDailyQuestion(S, rnd, faults) ==
    LET acc == DailyLoop(StartAcc(S), S.users, 1, rnd, faults)
    IN  [acc |-> acc,
         summary |-> IF acc.aborted THEN NoSummary
                     ELSE [totalUsers |-> Len(S.users), sentCount |-> acc.sent,
                           skippedCount |-> acc.skipped]]

\* ---- end-of-week review ----
\* SaturdayUser with the two values of noResponseWeek swapped
SaturdayUser_Swapped(acc, rows, k, faults) ==
    LET row          == rows[k]
        userId       == row.userId
        responseDays == countWeeklyResponses(acc.S, userId, row.currentWeek)
        messageId    == IF responseDays = 0 THEN "SATURDAY_NO_RESPONSE" ELSE "SATURDAY_START"
        message      == Msg(userId, "push", messageId,
                            IF responseDays > 0 THEN "buttons" ELSE "")
        pushed       == IF HasMessage(messageId) THEN Send(acc.S, message) ELSE acc.S
        saved        == [row EXCEPT !.noResponseWeek =
                                       IF responseDays = 0 THEN 0
                                       ELSE row.noResponseWeek + 1]
    IN  IF row.status \in {"active", "waiting_answer"} /\ row.currentTheme # "" THEN
            IF faults[userId] = "read" THEN Caught(acc, acc.S, userId)
            ELSE IF faults[userId] = "send" /\ HasMessage(messageId)
                THEN Caught(acc, acc.S, userId)
            ELSE IF faults[userId] = "write" THEN Caught(acc, pushed, userId)
            ELSE Sent(acc, [pushed EXCEPT !.users[k] = saved], userId, messageId)
        ELSE Skipped(acc, userId, "skipped")

\* one iteration of the loop of sendSaturdayReview, for rows[k]
\* SaturdayUser saving the counter although the push threw
SaturdayUser_CountOnFail(acc, rows, k, faults) ==
    LET row          == rows[k]
        userId       == row.userId
        responseDays == countWeeklyResponses(acc.S, userId, row.currentWeek)
        messageId    == IF responseDays = 0 THEN "SATURDAY_NO_RESPONSE" ELSE "SATURDAY_START"
        message      == Msg(userId, "push", messageId,
                            IF responseDays > 0 THEN "buttons" ELSE "")
        pushed       == IF HasMessage(messageId) THEN Send(acc.S, message) ELSE acc.S
        saved        == [row EXCEPT !.noResponseWeek =
                                       IF responseDays = 0 THEN row.noResponseWeek + 1 ELSE 0]
    IN  IF row.status \in {"active", "waiting_answer"} /\ row.currentTheme # "" THEN
            IF faults[userId] = "read" THEN Caught(acc, acc.S, userId)
            ELSE IF faults[userId] = "send" /\ HasMessage(messageId)
                THEN Caught(acc, [acc.S EXCEPT !.users[k] = saved], userId)
            ELSE IF faults[userId] = "write" THEN Caught(acc, pushed, userId)
            ELSE Sent(acc, [pushed EXCEPT !.users[k] = saved], userId, messageId)
        ELSE Skipped(acc, userId, "skipped")

SaturdayUser(acc, rows, k, faults) ==
    LET row          == rows[k]
        userId       == row.userId
        responseDays == countWeeklyResponses(acc.S, userId, row.currentWeek)
        messageId    == IF responseDays = 0 THEN "SATURDAY_NO_RESPONSE" ELSE "SATURDAY_START"
        message      == Msg(userId, "push", messageId,
                            IF responseDays > 0 THEN "buttons" ELSE "")
        pushed       == IF HasMessage(messageId) THEN Send(acc.S, message) ELSE acc.S
        saved        == [row EXCEPT !.noResponseWeek =
                                       IF responseDays = 0 THEN row.noResponseWeek + 1 ELSE 0]
    IN  IF row.status \in {"active", "waiting_answer"} /\ row.currentTheme # "" THEN
            IF faults[userId] = "read" THEN Caught(acc, acc.S, userId)
            ELSE IF faults[userId] = "send" /\ HasMessage(messageId)
                THEN Caught(acc, acc.S, userId)
            ELSE IF faults[userId] = "write" THEN Caught(acc, pushed, userId)
            ELSE Sent(acc, [pushed EXCEPT !.users[k] = saved], userId, messageId)
        ELSE Skipped(acc, userId, "skipped")

RECURSIVE SaturdayLoop(_, _, _, _)
SaturdayLoop(acc, rows, k, faults) ==
    IF k > Len(rows) \/ acc.aborted THEN acc
    ELSE SaturdayLoop(SaturdayUser(acc, rows, k, faults), rows, k + 1, faults)

sendSaturdayReview(S, faults) ==
    [acc |-> SaturdayLoop(StartAcc(S), S.users, 1, faults), summary |-> NoSummary]

\* ---- monthly summary ----
\* generateMonthlyAiInsight returning a summary although the summarizer threw
generateMonthlyAiInsight_Summary(S, userId, aiFails) ==
    IF Len(MonthlyAnswers(S, userId)) = 0
    THEN (IF HasMessage("NO_MONTHLY_RECORDS") THEN "NO_MONTHLY_RECORDS"
          ELSE "TEXT_NO_MONTHLY_RECORDS")
    ELSE "AI_SUMMARY"

\* the text generateMonthlyAiInsight returns; aiFails: the summarizer throws
generateMonthlyAiInsight(S, userId, aiFails) ==
    IF Len(MonthlyAnswers(S, userId)) = 0
    THEN (IF HasMessage("NO_MONTHLY_RECORDS") THEN "NO_MONTHLY_RECORDS"
          ELSE "TEXT_NO_MONTHLY_RECORDS")
    ELSE IF aiFails
    THEN (IF HasMessage("AI_ERROR_MONTHLY") THEN "AI_ERROR_MONTHLY"
          ELSE "TEXT_AI_ERROR_MONTHLY")
    ELSE "AI_SUMMARY"

MonthString(date) ==
    ToString(getFullYear(date)) \o "-"
        \o (IF getMonth(date) + 1 < 10 THEN "0" ELSE "") \o ToString(getMonth(date) + 1)

\* MonthlyUser adding the insight row before the push
MonthlyUser_SaveFirst(acc, rows, k, faults, aiFails) ==
    LET userId      == rows[k].userId
        insightText == generateMonthlyAiInsight(acc.S, userId, aiFails)
        insight     == [UserID |-> userId, Month |-> MonthString(now),
                        AIInsight |-> insightText]
        saved       == [acc.S EXCEPT !.insights = Append(@, insight)]
        pushed      == Send(saved, Msg(userId, "push", insightText, ""))
    IN  IF faults[userId] = "read" THEN Caught(acc, acc.S, userId)
        ELSE IF hasEnoughMonthlyData(acc.S, userId) THEN
            IF faults[userId] = "send" THEN Caught(acc, saved, userId)
            ELSE IF faults[userId] = "write" THEN Caught(acc, acc.S, userId)
            ELSE Sent(acc, pushed, userId, "sent")
        ELSE Skipped(acc, userId, "skipped")

\* one iteration of the loop of sendMonthlyReview, for rows[k]
MonthlyUser(acc, rows, k, faults, aiFails) ==
    LET userId      == rows[k].userId
        insightText == generateMonthlyAiInsight(acc.S, userId, aiFails)
        pushed      == Send(acc.S, Msg(userId, "push", insightText, ""))
        insight     == [UserID |-> userId, Month |-> MonthString(now),
                        AIInsight |-> insightText]
    IN  IF faults[userId] = "read" THEN Caught(acc, acc.S, userId)
        ELSE IF hasEnoughMonthlyData(acc.S, userId) THEN
            IF faults[userId] = "send" THEN Caught(acc, acc.S, userId)
            ELSE IF faults[userId] = "write" THEN Caught(acc, pushed, userId)
            ELSE Sent(acc, [pushed EXCEPT !.insights = Append(@, insight)], userId, "sent")
        ELSE Skipped(acc, userId, "skipped")

RECURSIVE MonthlyLoop(_, _, _, _, _)
MonthlyLoop(acc, rows, k, faults, aiFails) ==
    IF k > Len(rows) \/ acc.aborted THEN acc
    ELSE MonthlyLoop(MonthlyUser(acc, rows, k, faults, aiFails), rows, k + 1, faults, aiFails)

sendMonthlyReview(S, faults, aiFails) ==
    [acc |-> MonthlyLoop(StartAcc(S), S.users, 1, faults, aiFails), summary |-> NoSummary]

(***************************************************************************)
(* Actions: one inbound event or one trigger run at a time.                *)
(***************************************************************************)
PostbackActions ==
    {"start_now", "ready", "start_question", "how_to_play", "later", "show_record"}

\* the parsed postback.data the model feeds in
PostbackParams ==
    { [action |-> a, theme |-> ""] : a \in PostbackActions }
    \cup { [action |-> "select_theme", theme |-> t] : t \in {"SELF"} }

Triggers == {"monday", "daily", "saturday", "monthly"}

\* what the last operation was: op, the user and the payload of an event with
\* the status stored before it, and for a trigger its faults, the outcome of
\* each row, its counters, the summary it returned, whether it ran again
\* right after a run of the same trigger, for the daily question the rows
\* it started from, and for the monthly summary whether the summarizer threw
QuestionIds == { QuestionRows[k].QuestionID : k \in 1..Len(QuestionRows) }

\* the daily questions among the messages o that were pushed to userId
QuestionsTo(o, userId) ==
    { k \in 1..Len(o) : o[k].to = userId /\ o[k].via = "push" /\ o[k].arg \in QuestionIds }

\* the number of daily questions pushed to userId today, counted up to 2,
\* in the specification that counts them
AskedToday(op, o, userId) ==
    IF op = "tick" \/ ~last.counting THEN 0
    ELSE LET n == last.asked[userId] + Cardinality(QuestionsTo(o, userId))
         IN  IF n > 2 THEN 2 ELSE n

LastOp(op, userId, params, was, faults, acc, summary) ==
    [op |-> op, again |-> (op \in Triggers /\ last.op = op), user |-> userId,
     action |-> params.action, theme |-> params.theme,
     was |-> was, before |-> (IF op = "daily" THEN users ELSE <<>>), ai |-> FALSE,
     counting |-> last.counting,
     asked |-> [u \in UserIds |-> AskedToday(op, acc.S.out, u)],
     faults |-> faults, results |-> acc.results,
     sent |-> acc.sent, skipped |-> acc.skipped, errors |-> acc.errors,
     aborted |-> acc.aborted, summary |-> summary]

NoParams == [action |-> "", theme |-> ""]

Commit(S) ==
    /\ Len(S.answers) <= MaxAnswers
    /\ Len(S.insights) <= MaxInsights
    /\ \A k \in 1..Len(S.users) : S.users[k].noResponseWeek <= MaxNoResponseWeek
    /\ users' = S.users
    /\ answers' = S.answers
    /\ insights' = S.insights
    /\ out' = S.out
    /\ UNCHANGED <<now, templates, flight>>

\* no webhook call in progress; users and answers are the sheets as the
\* last webhook call found them, ops the handlers it started
\* no call of safeLoadInfo under way
NoLoad == [phase |-> "idle", maxRetries |-> 0, timeout |-> 0, attempt |-> 0,
           errors |-> <<>>, waits |-> <<>>, result |-> ""]

NoFlight == [users |-> <<>>, answers |-> <<>>, ops |-> <<>>, moves |-> 0,
             batch |-> "", at |-> 0, load |-> NoLoad]

InitOp ==
    [op |-> "init", again |-> FALSE, user |-> "", action |-> "", theme |-> "", was |-> "",
     before |-> <<>>, ai |-> FALSE, counting |-> FALSE,
     asked |-> [u \in UserIds |-> 0], faults |-> NoFaults, results |-> <<>>, sent |-> 0, skipped |-> 0, errors |-> 0,
     aborted |-> FALSE, summary |-> NoSummary]

Init ==
    /\ now = StartDay
    /\ templates = AllTemplates
    /\ users = <<>>
    /\ answers = <<>>
    /\ insights = <<>>
    /\ out = <<>>
    /\ last = InitOp
    /\ flight = NoFlight

TextEvent(userId, text) ==
    LET S == handleTextMessage(Store, userId, text)
    IN  /\ Commit(S)
        /\ last' = LastOp("text", userId, NoParams, StatusOf(users, userId), NoFaults,
                          StartAcc(S), NoSummary)

PostbackEvent(userId, params, r) ==
    LET S == handlePostback(Store, userId, params, r)
    IN  /\ Commit(S)
        /\ last' = LastOp("postback", userId, params, StatusOf(users, userId), NoFaults,
                          StartAcc(S), NoSummary)

\* the external scheduler calls each trigger on its days: the theme prompt on
\* Monday, the daily question Tuesday to Friday, the review on Saturday, the
\* monthly summary on the last day of the month
MondayTrigger(faults) ==
    LET run == sendMondayThemeSelection(Store, faults)
    IN  /\ getDay(now) = 1
        /\ Commit(run.acc.S)
        /\ last' = LastOp("monday", "", NoParams, "", faults, run.acc, run.summary)

DailyTrigger(rnd, faults) ==
    LET run == sendDailyQuestion(Store, rnd, faults)
    IN  /\ getDay(now) \in 2..5
        /\ Commit(run.acc.S)
        /\ last' = LastOp("daily", "", NoParams, "", faults, run.acc, run.summary)

SaturdayTrigger(faults) ==
    LET run == sendSaturdayReview(Store, faults)
    IN  /\ getDay(now) = 6
        /\ Commit(run.acc.S)
        /\ last' = LastOp("saturday", "", NoParams, "", faults, run.acc, run.summary)

MonthlyTrigger(faults, aiFails) ==
    LET run == sendMonthlyReview(Store, faults, aiFails)
    IN  /\ getMonth(now + 1) # getMonth(now)
        /\ Commit(run.acc.S)
        /\ last' = [LastOp("monthly", "", NoParams, "", faults, run.acc, run.summary)
                       EXCEPT !.ai = aiFails]

\* midnight passes; lastDay is the last day of the model
AdvanceDay(lastDay) ==
    /\ now < lastDay
    /\ now' = now + 1
    /\ out' = <<>>
    /\ last' = LastOp("tick", "", NoParams, "", NoFaults, StartAcc(Store), NoSummary)
    /\ UNCHANGED <<templates, users, answers, insights, flight>>

\* every collaborator call succeeds
Next ==
    \/ \E userId \in Senders, text \in Texts : TextEvent(userId, text)
    \/ \E userId \in Senders, params \in PostbackParams, r \in 0..(RandomSteps - 1) :
           PostbackEvent(userId, params, r)
    \/ MondayTrigger(NoFaults)
    \/ \E rnd \in RandomMaps : DailyTrigger(rnd, NoFaults)
    \/ SaturdayTrigger(NoFaults)
    \/ MonthlyTrigger(NoFaults, FALSE)
    \/ AdvanceDay(StartDay + MaxDay)

Spec == Init /\ [][Next]_vars

\* the same, with the daily questions of each user and day counted
InitCount ==
    /\ now = StartDay
    /\ templates = AllTemplates
    /\ users = <<>>
    /\ answers = <<>>
    /\ insights = <<>>
    /\ out = <<>>
    /\ last = [InitOp EXCEPT !.counting = TRUE]
    /\ flight = NoFlight

SpecCount == InitCount /\ [][Next]_vars

(***************************************************************************)
(* Two rows and failing collaborators.  The sheet starts on the Saturday   *)
(* with the row of a second user, left by the days before: joined on a     *)
(* weekday, or chose a theme this week.  Math.random() returns 0.          *)
(***************************************************************************)
EarlierRows(userId) ==
    { [NewUserRow(userId) EXCEPT !.status = "waiting_monday", !.lastActive = StartDay - 1],
      [NewUserRow(userId) EXCEPT !.status = "active", !.currentTheme = "SELF",
           !.currentWeek = WeekString(StartDay), !.lastActive = StartDay - 1] }

InitFault ==
    /\ now = StartDay + 1
    /\ templates = AllTemplates
    /\ users \in { <<row>> : row \in EarlierRows("u2") }
    /\ answers = <<>>
    /\ insights = <<>>
    /\ out = <<>>
    /\ last = InitOp
    /\ flight = NoFlight

\* the buttons pressed in this specification
FaultPostbackParams ==
    { [action |-> "select_theme", theme |-> "SELF"],
      [action |-> "start_question", theme |-> ""] }

\* collaborator calls made by the triggers may throw
NextFault ==
    \/ \E userId \in Senders, text \in Texts : TextEvent(userId, text)
    \/ \E userId \in Senders, params \in FaultPostbackParams :
           PostbackEvent(userId, params, 0)
    \/ \E faults \in FaultMaps : MondayTrigger(faults)
    \/ \E faults \in FaultMaps : DailyTrigger(ZeroDraws, faults)
    \/ \E faults \in FaultMaps : SaturdayTrigger(faults)
    \/ \E faults \in FaultMaps, aiFails \in BOOLEAN : MonthlyTrigger(faults, aiFails)
    \/ AdvanceDay(StartDay + MaxDay)

SpecFault == InitFault /\ [][NextFault]_vars

(***************************************************************************)
(* More than a week of one user: the sheet starts empty on Tuesday         *)
(* 2025-01-07 and the days run to the Tuesday of the week after.  The      *)
(* buttons pressed are the theme choice and the start of the question;     *)
(* Math.random() returns 0.                                                *)
(***************************************************************************)
WeekStart == DaysBeforeYear(2025) + 6

InitWeek ==
    /\ now = WeekStart
    /\ templates = AllTemplates
    /\ users = <<>>
    /\ answers = <<>>
    /\ insights = <<>>
    /\ out = <<>>
    /\ last = InitOp
    /\ flight = NoFlight

NextWeek ==
    \/ \E userId \in Senders, text \in Texts : TextEvent(userId, text)
    \/ \E userId \in Senders, params \in FaultPostbackParams :
           PostbackEvent(userId, params, 0)
    \/ MondayTrigger(NoFaults)
    \/ DailyTrigger(ZeroDraws, NoFaults)
    \/ SaturdayTrigger(NoFaults)
    \/ AdvanceDay(WeekStart + WeekDays)

SpecWeek == InitWeek /\ [][NextWeek]_vars

(***************************************************************************)
(* Payloads and sheets as they may come: postbacks other than the ones the *)
(* bot's own buttons carry, and a Messages sheet in which the templates of *)
(* one operation are missing.  The sheet of users starts empty on the      *)
(* Saturday.                                                               *)
(***************************************************************************)
\* the templates one operation looks up
TemplateGroups ==
    { {"WELCOME_MONDAY", "WELCOME_OTHER_DAY"},
      {"MONDAY_WEEK1"},
      {"SATURDAY_NO_RESPONSE", "SATURDAY_START"},
      {"START_READY", "START_READY_FALLBACK"} }

InitInput ==
    /\ now = StartDay + 1
    /\ templates \in {AllTemplates} \cup { AllTemplates \ g : g \in TemplateGroups }
    /\ users = <<>>
    /\ answers = <<>>
    /\ insights = <<>>
    /\ out = <<>>
    /\ last = InitOp
    /\ flight = NoFlight

\* postback.data: a theme of the buttons, one that is none, an empty one
\* ("theme="), none at all; an action of no case of the switch
InputPostbackParams ==
    { [action |-> "select_theme", theme |-> t] : t \in {"SELF", "OTHER", "", Undefined} }
    \cup { [action |-> a, theme |-> Undefined] : a \in {"start_now", "get_insight"} }

NextInput ==
    \/ \E userId \in Senders, text \in Texts : TextEvent(userId, text)
    \/ \E userId \in Senders, params \in InputPostbackParams :
           PostbackEvent(userId, params, 0)
    \/ MondayTrigger(NoFaults)
    \/ SaturdayTrigger(NoFaults)
    \/ AdvanceDay(StartDay + MaxDay)

SpecInput == InitInput /\ [][NextInput]_vars

(***************************************************************************)
(* The end of a month.  Two users have a theme; the Answers sheet holds    *)
(* rows of this month, of the month before and of the same month a year    *)
(* before, in the order they were appended.  The push of the summary and   *)
(* the summarizer may fail.                                                *)
(***************************************************************************)
\* Friday 2025-01-31
MonthEnd == DaysBeforeYear(2025) + 30

\* an Answers row appended on day date by a user whose theme is of week
AnswerRow(userId, date, week) ==
    [userId |-> userId, week |-> week, theme |-> "SELF", day |-> DayString(date),
     questionId |-> "N/A", answer |-> "hello", skipped |-> FALSE, timestamp |-> date]

\* rows of Wednesday 2025-01-22 and 2025-01-29 (the second also with the
\* week of a theme chosen the week before), of Monday 2024-12-30 and of
\* Wednesday 2024-01-24
AnswerPool ==
    { AnswerRow(u, pair[1], pair[2]) :
        u \in UserIds,
        pair \in { <<MonthEnd - 9, WeekString(MonthEnd - 9)>>,
                   <<MonthEnd - 2, WeekString(MonthEnd - 2)>>,
                   <<MonthEnd - 2, WeekString(MonthEnd - 9)>>,
                   <<MonthEnd - 32, WeekString(MonthEnd - 32)>>,
                   <<DaysBeforeYear(2024) + 23, WeekString(DaysBeforeYear(2024) + 23)>> } }

\* the sheets of at most MaxAnswers rows of the pool, oldest first
AnswerSheets ==
    UNION { { rows \in [1..n -> AnswerPool] :
                \A k \in 1..(n - 1) : rows[k].timestamp <= rows[k + 1].timestamp } :
            n \in 0..MaxAnswers }

InitMonth ==
    /\ now = MonthEnd - 1
    /\ templates \in {AllTemplates, AllTemplates \ {"AI_ERROR_MONTHLY"}}
    /\ users = << [NewUserRow("u1") EXCEPT !.status = "active", !.currentTheme = "SELF",
                       !.currentWeek = WeekString(MonthEnd - 2), !.lastActive = MonthEnd - 2],
                  [NewUserRow("u2") EXCEPT !.status = "active", !.currentTheme = "SELF",
                       !.currentWeek = WeekString(MonthEnd - 9), !.lastActive = MonthEnd - 2] >>
    /\ answers \in AnswerSheets
    /\ insights = <<>>
    /\ out = <<>>
    /\ last = InitOp
    /\ flight = NoFlight

\* the pushes of a run may fail
SendFaultMaps == [UserIds -> {"ok", "send"}]

NextMonth ==
    \/ \E faults \in SendFaultMaps, aiFails \in BOOLEAN : MonthlyTrigger(faults, aiFails)
    \/ AdvanceDay(MonthEnd)

SpecMonth == InitMonth /\ [][NextMonth]_vars

(***************************************************************************)
(* Week numbers.  The server runs on any date from 2019-12-25 on, eight    *)
(* turns of the year included; a user writes and chooses a theme, so that  *)
(* saveUserTheme stores the week string of that date.                      *)
(***************************************************************************)
CalendarFirst == DaysBeforeYear(2019) + 358

InitCalendar ==
    /\ now \in CalendarFirst..(CalendarFirst + CalendarDays - 1)
    /\ templates = AllTemplates
    /\ users = <<>>
    /\ answers = <<>>
    /\ insights = <<>>
    /\ out = <<>>
    /\ last = InitOp
    /\ flight = NoFlight

NextCalendar ==
    \/ \E userId \in Senders, text \in Texts : TextEvent(userId, text)
    \/ \E userId \in Senders : PostbackEvent(userId, [action |-> "select_theme", theme |-> "SELF"], 0)

SpecCalendar == InitCalendar /\ [][NextCalendar]_vars

(***************************************************************************)
(* Events of one webhook call.  The webhook starts handleEvent for every   *)
(* event of the request at once (Promise.all over events.map), and a       *)
(* handler gives way at each await: between reading the rows of a sheet    *)
(* and saving a row, the store calls of the other handlers may run.  A     *)
(* handler is the list of the calls it still has to make, the row its      *)
(* current call read (snap) and the user object saveUserAnswer holds.      *)
(* row.save() writes every cell of the row as the handler holds it.        *)
(***************************************************************************)
Call(name, arg) == [call |-> name, arg |-> arg, buttons |-> ""]

Event(type, action, theme, text) ==
    [type |-> type, action |-> action, theme |-> theme, text |-> text]

\* the events of the webhook calls
RaceEvents ==
    { Event("text", "", "", "hello"),
      Event("postback", "later", Undefined, ""),
      Event("postback", "select_theme", "FAMILY", "") }

\* the calls of handleTextMessage after getOrCreateUser returned status
TextCalls(status) ==
    LET welcomeId == IF getDay(now) = 1 THEN "WELCOME_MONDAY" ELSE "WELCOME_OTHER_DAY"
        welcomed  == IF getDay(now) = 1 THEN "waiting_theme" ELSE "waiting_monday"
    IN  IF status \in {"", "new", "idle", "waiting_monday"} THEN
            IF HasMessage(welcomeId)
            THEN << Call("reply", welcomeId), Call("status", welcomed) >>
            ELSE << Call("reply", ReplyTextId("WELCOME_FALLBACK", "GENERIC_ERROR")) >>
        ELSE IF status = "waiting_theme"
            THEN << Call("reply", ReplyTextId("PROMPT_THEME_CHOICE", "GENERIC_ERROR")) >>
        ELSE IF status = "waiting_answer"
            THEN << Call("answer", ""), Call("add", ""), Call("clear", ""),
                    Call("reply", ReplyTextId("HEARD", "GENERIC_ERROR")),
                    Call("status", "active") >>
        ELSE IF status = "saturday_showed_record"
            THEN << Call("reply", ReplyTextId("SATURDAY_END", "GENERIC_ERROR")),
                    Call("status", "active") >>
        ELSE IF status = "active"
            THEN << Call("reply", ReplyTextId("ACK_ACTIVE", "GENERIC_ERROR")) >>
        ELSE << Call("reply", ReplyTextId("FALLBACK_GENERAL", "GENERIC_ERROR")) >>

\* the calls of handlePostback for the actions of RaceEvents
PostbackCalls(params) ==
    IF params.action = "later"
        THEN << Call("reply", ReplyTextId("LATER", "LATER_FALLBACK")),
                Call("status", "waiting_monday") >>
    ELSE IF params.action = "select_theme"
        THEN << Call("theme", params.theme),
                [call |-> "reply",
                 arg |-> IF HasMessage("CONFIRM_" \o params.theme)
                         THEN "CONFIRM_" \o params.theme
                         ELSE IF HasMessage("THEME_CONFIRM_FALLBACK")
                              THEN "THEME_CONFIRM_FALLBACK"
                              ELSE "TEXT_THEME_CONFIRM",
                 buttons |-> IF getDay(now) >= 1 /\ getDay(now) <= 5
                             THEN "action=start_question" ELSE ""] >>
    ELSE << >>

\* handleEvent(event) as it starts
Handler(userId, event) ==
    [user |-> userId, event |-> event,
     todo |-> IF event.type = "text" THEN << Call("dispatch", "") >>
              ELSE PostbackCalls(event),
     snap |-> <<>>, held |-> <<>>, attempt |-> 1]

\* the row a call saves, from the row as the call read it
Changed(call, row) ==
    IF call.call = "status"
        THEN [row EXCEPT !.status = call.arg, !.lastActive = now]
    ELSE IF call.call = "theme"
        THEN [row EXCEPT !.status = "active", !.currentTheme = Cell(@, call.arg),
                         !.currentWeek = WeekString(now), !.lastActive = now]
    ELSE [row EXCEPT !.noResponseWeek = 0, !.lastQuestionId = ""]

\* row.save() sending only the cells the call set
Saved_Merged(rows, i, call, snap) == [rows EXCEPT ![i] = Changed(call, rows[i])]

\* the Users sheet after row.save() of the row read as snap at position i
Saved(rows, i, call, snap) == [rows EXCEPT ![i] = Changed(call, snap)]

Idle == \A j \in 1..Len(flight.ops) : flight.ops[j].todo = <<>>

\* a webhook request with events e1 and e2 of one user arrives
Webhook(userId, e1, e2) ==
    /\ Idle
    /\ flight' = [NoFlight EXCEPT !.users = users, !.answers = answers,
                                  !.ops = << Handler(userId, e1), Handler(userId, e2) >>]
    /\ out' = <<>>
    /\ last' = LastOp("webhook", userId, NoParams, StatusOf(users, userId), NoFaults,
                      StartAcc(Store), NoSummary)
    /\ UNCHANGED <<now, templates, users, answers, insights>>

\* handler j finished its first call and goes on with the calls left
Continue(j, todo, snap, held) ==
    flight' = [flight EXCEPT !.ops[j].todo = todo, !.ops[j].snap = snap,
                             !.ops[j].held = held]

Pending(j, calls) ==
    /\ j \in 1..Len(flight.ops)
    /\ flight.ops[j].todo # <<>>
    /\ Head(flight.ops[j].todo).call \in calls

\* handleTextMessage: getRows and rows.find of getOrCreateUser, then the
\* branch of the status when the row was found
Dispatch(j) ==
    /\ Pending(j, {"dispatch"})
    /\ LET h == flight.ops[j]
            i == FindRow(users, h.user)
       IN  IF i = 0 THEN Continue(j, << Call("create", "") >>, <<>>, <<>>)
           ELSE Continue(j, TextCalls(users[i].status), <<>>, <<>>)
    /\ UNCHANGED <<now, templates, users, answers, insights, out, last>>

\* getOrCreateUser: userSheet.addRow of the user not found, then the branch
\* of the status new
CreateUser(j) ==
    /\ Pending(j, {"create"})
    /\ users' = Append(users, NewUserRow(flight.ops[j].user))
    /\ Continue(j, TextCalls("new"), <<>>, <<>>)
    /\ UNCHANGED <<now, templates, answers, insights, out, last>>

\* client.replyMessage
Reply(j) ==
    /\ Pending(j, {"reply"})
    /\ LET h == flight.ops[j]
       IN  /\ out' = Append(out, Msg(h.user, "reply", Head(h.todo).arg,
                                     Head(h.todo).buttons))
           /\ Continue(j, Tail(h.todo), <<>>, h.held)
    /\ UNCHANGED <<now, templates, users, answers, insights, last>>

\* userSheet.getRows() and rows.find of updateUserStatus, saveUserTheme and
\* the end of saveUserAnswer
ReadRow(j) ==
    /\ Pending(j, {"status", "theme", "clear"})
    /\ flight.ops[j].snap = <<>>
    /\ LET h == flight.ops[j]
            i == FindRow(users, h.user)
       IN  IF i = 0 THEN Continue(j, Tail(h.todo), <<>>, h.held)
           ELSE Continue(j, h.todo, <<users[i]>>, h.held)
    /\ UNCHANGED <<now, templates, users, answers, insights, out, last>>

\* userRow.set(...) and userRow.save()
SaveRow(j) ==
    /\ Pending(j, {"status", "theme", "clear"})
    /\ flight.ops[j].snap # <<>>
    /\ LET h == flight.ops[j]
            i == FindRow(users, h.user)
       IN  /\ users' = Saved(users, i, Head(h.todo), h.snap[1])
           /\ flight' = [flight EXCEPT !.ops[j].todo = Tail(h.todo), !.ops[j].snap = <<>>,
                                       !.moves = IF users'[i].status # users[i].status
                                                 THEN @ + 1 ELSE @]
    /\ UNCHANGED <<now, templates, answers, insights, out, last>>

\* saveUserAnswer: getOrCreateUser and the test of lastQuestionId
AnswerCheck(j) ==
    /\ Pending(j, {"answer"})
    /\ LET h    == flight.ops[j]
            S1   == getOrCreateUser(Store, h.user)
            user == UserOf(S1, h.user)
       IN  /\ users' = S1.users
           /\ IF user.lastQuestionId = ""
              THEN Continue(j, SubSeq(h.todo, 4, Len(h.todo)), <<>>, <<>>)
              ELSE Continue(j, Tail(h.todo), <<>>, <<user>>)
    /\ UNCHANGED <<now, templates, answers, insights, out, last>>

\* saveUserAnswer: answerSheet.addRow
AddAnswer(j) ==
    /\ Pending(j, {"add"})
    /\ Len(answers) < MaxAnswers
    /\ LET h    == flight.ops[j]
            user == h.held[1]
       IN  /\ answers' = Append(answers,
                  [userId |-> h.user, week |-> user.currentWeek,
                   theme |-> user.currentTheme, day |-> DayString(now),
                   questionId |-> QuestionIdOrNA(user.lastQuestionId),
                   answer |-> h.event.text, skipped |-> FALSE, timestamp |-> now])
           /\ Continue(j, Tail(h.todo), <<>>, <<>>)
    /\ UNCHANGED <<now, templates, users, insights, out, last>>

\* the rows a user may have on the Friday: a question pending, a theme
\* chosen, or only the welcome received; a user not seen before has none
RaceRows(userId) ==
    { [NewUserRow(userId) EXCEPT !.status = "waiting_answer", !.currentTheme = "SELF",
           !.currentWeek = WeekString(StartDay), !.lastActive = StartDay,
           !.lastQuestionId = "Q_SELF_FRI_1"],
      [NewUserRow(userId) EXCEPT !.status = "active", !.currentTheme = "SELF",
           !.currentWeek = WeekString(StartDay), !.lastActive = StartDay],
      [NewUserRow(userId) EXCEPT !.status = "waiting_monday", !.lastActive = StartDay] }

InitRace ==
    /\ now = StartDay
    /\ templates = AllTemplates
    /\ users \in {<<>>} \cup { <<row>> : row \in RaceRows("u1") }
    /\ answers = <<>>
    /\ insights = <<>>
    /\ out = <<>>
    /\ last = InitOp
    /\ flight = NoFlight

NextRace ==
    \/ \E userId \in Senders, e1 \in RaceEvents, e2 \in RaceEvents : Webhook(userId, e1, e2)
    \/ \E j \in 1..2 : Dispatch(j)
    \/ \E j \in 1..2 : CreateUser(j)
    \/ \E j \in 1..2 : Reply(j)
    \/ \E j \in 1..2 : ReadRow(j)
    \/ \E j \in 1..2 : SaveRow(j)
    \/ \E j \in 1..2 : AnswerCheck(j)
    \/ \E j \in 1..2 : AddAnswer(j)

SpecRace == InitRace /\ [][NextRace]_vars

(***************************************************************************)
(* A failing call inside a handler.  handleEvent wraps safeLoadInfo and    *)
(* the handler in one try block; its catch block, when the spreadsheet was *)
(* loaded before (doc.title is set), calls the handler of the event again  *)
(* from the start, and swallows what that second call throws.              *)
(***************************************************************************)
\* a webhook request with one event arrives
Receive(userId, event) ==
    /\ Idle
    /\ flight' = [NoFlight EXCEPT !.users = users, !.answers = answers,
                                  !.ops = << Handler(userId, event) >>]
    /\ out' = <<>>
    /\ last' = LastOp("webhook", userId, NoParams, StatusOf(users, userId), NoFaults,
                      StartAcc(Store), NoSummary)
    /\ UNCHANGED <<now, templates, users, answers, insights>>

\* the call handler j is about to make throws: the catch block of handleEvent
\* runs the handler again, once
Throw(j) ==
    /\ Pending(j, {"dispatch", "create", "reply", "status", "theme", "clear",
                   "answer", "add"})
    /\ LET h == flight.ops[j]
       IN  IF h.attempt = 1
           THEN flight' = [flight EXCEPT
                              !["ops"][j] = [Handler(h.user, h.event) EXCEPT !.attempt = 2]]
           ELSE Continue(j, <<>>, <<>>, <<>>)
    /\ UNCHANGED <<now, templates, users, answers, insights, out, last>>

NextRetry ==
    \/ \E userId \in Senders, event \in RaceEvents : Receive(userId, event)
    \/ Dispatch(1)
    \/ CreateUser(1)
    \/ Reply(1)
    \/ ReadRow(1)
    \/ SaveRow(1)
    \/ AnswerCheck(1)
    \/ AddAnswer(1)
    \/ Throw(1)

SpecRetry == InitRace /\ [][NextRetry]_vars

(***************************************************************************)
(* Events during a batch.  sendMondayThemeSelection and sendSaturdayReview *)
(* read the rows of the Users sheet once and then await the push and the   *)
(* save of one row after the other; the webhook handles events meanwhile.  *)
(* flight.users are the rows as the batch read them, flight.at the row the *)
(* loop comes to next.                                                     *)
(***************************************************************************)
\* the trigger reads the rows
BatchStart(trigger) ==
    /\ flight.batch = ""
    /\ getDay(now) = (IF trigger = "monday" THEN 1 ELSE 6)
    /\ trigger = "monday" => HasMessage("MONDAY_WEEK1")
    /\ flight' = [NoFlight EXCEPT !.users = users, !.batch = trigger, !.at = 1]
    /\ out' = <<>>
    /\ last' = LastOp("tick", "", NoParams, "", NoFaults, StartAcc(Store), NoSummary)
    /\ UNCHANGED <<now, templates, users, answers, insights>>

\* one iteration of the loop, for the row read as flight.users[flight.at]
BatchUser ==
    /\ flight.batch # ""
    /\ flight.at <= Len(flight.users)
    /\ LET k   == flight.at
            acc == IF flight.batch = "monday"
                   THEN MondayUser(StartAcc(Store), flight.users, k, NoFaults)
                   ELSE SaturdayUser(StartAcc(Store), flight.users, k, NoFaults)
       IN  /\ \A i \in 1..Len(acc.S.users) :
                 acc.S.users[i].noResponseWeek <= MaxNoResponseWeek
           /\ users' = acc.S.users
           /\ out' = acc.S.out
           /\ last' = LastOp(flight.batch, flight.users[k].userId, NoParams,
                             users[k].status, NoFaults, acc, NoSummary)
    /\ flight' = [flight EXCEPT !.at = @ + 1]
    /\ UNCHANGED <<now, templates, answers, insights>>

\* the loop is through
BatchEnd ==
    /\ flight.batch # ""
    /\ flight.at > Len(flight.users)
    /\ flight' = NoFlight
    /\ UNCHANGED <<now, templates, users, answers, insights, out, last>>

InitBatch ==
    /\ now = StartDay + 1
    /\ templates = AllTemplates
    /\ users \in { <<row>> : row \in RaceRows("u1") }
    /\ answers = <<>>
    /\ insights = <<>>
    /\ out = <<>>
    /\ last = InitOp
    /\ flight = NoFlight

NextBatch ==
    \/ \E trigger \in {"monday", "saturday"} : BatchStart(trigger)
    \/ BatchUser
    \/ BatchEnd
    \/ \E userId \in Senders, text \in Texts : TextEvent(userId, text)
    \/ \E userId \in Senders, params \in FaultPostbackParams :
           PostbackEvent(userId, params, 0)
    \/ (flight.batch = "" /\ AdvanceDay(StartDay + 3))

SpecBatch == InitBatch /\ [][NextBatch]_vars

(***************************************************************************)
(* safeLoadInfo.  One call: the attempts of the for loop, each a race of   *)
(* doc.loadInfo() against a timer of timeout ms, and the waits between     *)
(* them.  flight.load holds the position of the call, the errors of the    *)
(* failed attempts and the waits made.                                     *)
(***************************************************************************)
RECURSIVE Pow2(_)
Pow2(n) == IF n = 0 THEN 1 ELSE 2 * Pow2(n - 1)

\* the wait after a failed attempt, without the cap of 5000 ms
waitTime_Uncapped(attempt) == 1000 * Pow2(attempt - 1)

\* Math.min(1000 * Math.pow(2, attempt - 1), 5000)
waitTime(attempt) ==
    LET w == 1000 * Pow2(attempt - 1)
    IN  IF w < 5000 THEN w ELSE 5000

\* what a failed attempt rejects with: an error of the API, or the timer
LoadErrors == {"status 403", "status 503", "timeout"}

\* the timeouts the callers pass: the default, and the one of the health check
LoadTimeouts == {10000, 3000}

\* safeLoadInfo(maxRetries, timeout) is called: the first attempt starts
LoadCall(maxRetries, timeout) ==
    /\ flight.load.phase = "idle"
    /\ flight' = [flight EXCEPT !.load = [NoLoad EXCEPT !.phase = "loading",
                                                        !.maxRetries = maxRetries,
                                                        !.timeout = timeout,
                                                        !.attempt = 1]]
    /\ UNCHANGED <<now, templates, users, answers, insights, out, last>>

\* doc.loadInfo() resolves before the timer: return true
LoadResolves ==
    /\ flight.load.phase = "loading"
    /\ flight' = [flight EXCEPT !.load.phase = "returned", !.load.result = "true"]
    /\ UNCHANGED <<now, templates, users, answers, insights, out, last>>

\* the race rejects with error: throw it after the last attempt, else wait
LoadRejects(error) ==
    /\ flight.load.phase = "loading"
    /\ LET load == flight.load
       IN  IF load.attempt = load.maxRetries
           THEN flight' = [flight EXCEPT !.load.phase = "threw",
                                         !.load.errors = Append(@, error),
                                         !.load.result = error]
           ELSE flight' = [flight EXCEPT !.load.phase = "waiting",
                                         !.load.errors = Append(@, error),
                                         !.load.waits = Append(@, waitTime(load.attempt))]
    /\ UNCHANGED <<now, templates, users, answers, insights, out, last>>

\* the timer of the wait fires: the next attempt starts
LoadRetry ==
    /\ flight.load.phase = "waiting"
    /\ flight' = [flight EXCEPT !.load.phase = "loading", !.load.attempt = @ + 1]
    /\ UNCHANGED <<now, templates, users, answers, insights, out, last>>

\* the attempt under way settles, one way or the other
LoadSettles == LoadResolves \/ \E error \in LoadErrors : LoadRejects(error)

NextLoad ==
    \/ \E maxRetries \in 1..MaxRetries, timeout \in LoadTimeouts : LoadCall(maxRetries, timeout)
    \/ LoadResolves
    \/ \E error \in LoadErrors : LoadRejects(error)
    \/ LoadRetry

\* the race with the timer settles every attempt within timeout ms, and the
\* timer of every wait fires
SpecLoad == Init /\ [][NextLoad]_vars /\ WF_vars(LoadSettles) /\ WF_vars(LoadRetry)

(***************************************************************************)
(* Properties.                                                             *)
(***************************************************************************)
RowOf(rows, userId) == rows[FindRow(rows, userId)]

\* the messages with the given id among the messages o pushed to userId
PushesTo(o, userId, id) ==
    { k \in 1..Len(o) : o[k].to = userId /\ o[k].via = "push" /\ o[k].id = id }

\* the outcome the last trigger run recorded for userId, "" if it recorded none
OutcomeOf(results, userId) ==
    IF \E k \in 1..Len(results) : results[k].userId = userId
    THEN results[CHOOSE k \in 1..Len(results) : results[k].userId = userId].outcome
    ELSE ""

AnsweredToday(userId) ==
    \E k \in 1..Len(answers) : answers[k].userId = userId /\ answers[k].timestamp = now

\* C1: a text message from a user stored as waiting_answer appends exactly one
\* AnswerRecord of that user with skipped = false and leaves the user's
\* noResponseWeek at 0.
C1_AnswerAppended ==
    [][\A u \in UserIds :
          (last'.op = "text" /\ last'.user = u /\ StatusOf(users, u) = "waiting_answer")
          => /\ Len(answers') = Len(answers) + 1
             /\ SubSeq(answers', 1, Len(answers)) = answers
             /\ answers'[Len(answers')].userId = u
             /\ answers'[Len(answers')].skipped = FALSE
             /\ RowOf(users', u).noResponseWeek = 0]_vars

C1_Witness ==
    /\ last.op = "text"
    /\ last.was = "waiting_answer"
    /\ Len(answers) >= 1
    /\ answers[Len(answers)].userId = last.user
    /\ answers[Len(answers)].timestamp = now
    /\ RowOf(users, last.user).noResponseWeek = 0

\* C2: a select_theme postback carrying theme T from a user stored as
\* waiting_theme leaves the user's row with status active, currentTheme T and
\* currentWeek the week string of the current date.
C2_ThemeSelected ==
    [][\A u \in UserIds :
          (/\ last'.op = "postback" /\ last'.user = u /\ last'.action = "select_theme"
           /\ StatusOf(users, u) = "waiting_theme")
          => /\ RowOf(users', u).status = "active"
             /\ RowOf(users', u).currentTheme = last'.theme
             /\ RowOf(users', u).currentWeek = WeekString(now)]_vars

C2_Witness ==
    /\ last.op = "postback"
    /\ last.action = "select_theme"
    /\ last.was = "waiting_theme"
    /\ RowOf(users, last.user).status = "active"
    /\ RowOf(users, last.user).currentTheme = last.theme
    /\ RowOf(users, last.user).currentWeek = WeekString(now)

\* C3: when the daily-question trigger runs a second time right after a run of
\* the same day, the two runs together push at most one question to a user,
\* and a user the first run pushed a question to is skipped by the second
\* with the reason 'Already sent today'.
C3_SecondDailyRunSkips ==
    [][(last.op = "daily" /\ last'.op = "daily" /\ last'.again /\ now' = now)
          => \A u \in UserIds :
                /\ Cardinality(QuestionsTo(out, u)) + Cardinality(QuestionsTo(out', u)) <= 1
                /\ QuestionsTo(out, u) # {}
                      => OutcomeOf(last'.results, u) = "Already sent today"]_vars

C3_Witness ==
    /\ last.op = "daily"
    /\ last.again
    /\ \E k \in 1..Len(last.results) : last.results[k].outcome = "Already sent today"
    /\ out = <<>>

\* C4: while an AnswerRecord of a user dated today exists, no operation of
\* that day (the batch trigger, the start_question postback, any other)
\* pushes a daily question to that user, whatever the user's status.
C4_NoQuestionAfterAnswer ==
    [][\A u \in UserIds :
          (AnsweredToday(u) /\ now' = now) => QuestionsTo(out', u) = {}]_vars

C4_Witness ==
    /\ last.op = "daily"
    /\ \E k \in 1..Len(last.results) :
          /\ last.results[k].outcome = "Already answered today"
          /\ AnsweredToday(last.results[k].userId)
          /\ QuestionsTo(out, last.results[k].userId) = {}

\* the rows the claim of C5 names
MondayEligible(row) ==
    \/ row.status \in {"waiting_monday", "saturday_showed_record"}
    \/ (row.status = "active" /\ row.currentWeek # WeekString(now))

\* C5: the weekly theme-prompt trigger pushes the theme-selection message to
\* a user and sets the status to waiting_theme exactly when the status is
\* waiting_monday or saturday_showed_record, or active with a currentWeek other
\* than this week's string; every other user is counted as skipped and the
\* row is left unchanged.
C5_MondayEligibility ==
    [][(last'.op = "monday")
          => /\ Len(users') = Len(users)
             /\ \A k \in 1..Len(users) :
                   IF MondayEligible(users[k])
                   THEN /\ Cardinality(PushesTo(out', users[k].userId, "MONDAY_WEEK1")) = 1
                        /\ users'[k].status = "waiting_theme"
                        /\ last'.results[k].outcome = "sent"
                   ELSE /\ \A j \in 1..Len(out') : out'[j].to # users[k].userId
                        /\ users'[k] = users[k]
                        /\ last'.results[k].outcome = "skipped"
             /\ last'.summary.skippedCount
                   = Cardinality({ k \in 1..Len(users) : ~MondayEligible(users[k]) })
             /\ last'.summary.sentCount
                   = Cardinality({ k \in 1..Len(users) : MondayEligible(users[k]) })]_vars

C5_Witness ==
    /\ last.op = "monday"
    /\ \E k \in 1..Len(users) :
          /\ last.results[k].outcome = "sent"
          /\ users[k].status = "waiting_theme"
          /\ users[k].currentTheme # ""
          /\ PushesTo(out, users[k].userId, "MONDAY_WEEK1") # {}

\* the non-skipped answers of a row's user for the row's currentWeek
WeekAnswers(row) ==
    { j \in 1..Len(answers) :
        /\ answers[j].userId = row.userId
        /\ answers[j].week = row.currentWeek
        /\ answers[j].skipped = FALSE }

\* C6: the end-of-week review, for a user that is active or waiting_answer
\* with a theme, pushes the 'no response' template and adds exactly 1 to
\* noResponseWeek when the user has no non-skipped answer for currentWeek,
\* and pushes the 'start review' template and sets noResponseWeek to 0 when
\* the user has at least one.
C6_SaturdayReview ==
    [][(last'.op = "saturday")
          => \A k \in 1..Len(users) :
                (users[k].status \in {"active", "waiting_answer"} /\ users[k].currentTheme # "")
                => IF WeekAnswers(users[k]) = {}
                   THEN /\ Cardinality(PushesTo(out', users[k].userId, "SATURDAY_NO_RESPONSE")) = 1
                        /\ PushesTo(out', users[k].userId, "SATURDAY_START") = {}
                        /\ users'[k].noResponseWeek = users[k].noResponseWeek + 1
                   ELSE /\ Cardinality(PushesTo(out', users[k].userId, "SATURDAY_START")) = 1
                        /\ PushesTo(out', users[k].userId, "SATURDAY_NO_RESPONSE") = {}
                        /\ users'[k].noResponseWeek = 0]_vars

C6_Witness ==
    /\ last.op = "saturday"
    /\ \E k \in 1..Len(users) :
          /\ last.results[k].outcome = "SATURDAY_START"
          /\ WeekAnswers(users[k]) # {}
          /\ users[k].noResponseWeek = 0
          /\ PushesTo(out, users[k].userId, "SATURDAY_START") # {}

\* the outcomes a run of the last trigger gives when no call throws
UnfailedResults(op) ==
    IF op = "monday" THEN sendMondayThemeSelection(Store, NoFaults).acc.results
    ELSE IF op = "daily"
        THEN sendDailyQuestion(Store, ZeroDraws, NoFaults).acc.results
    ELSE IF op = "saturday" THEN sendSaturdayReview(Store, NoFaults).acc.results
    ELSE sendMonthlyReview(Store, NoFaults, FALSE).acc.results

\* the outcomes recorded for a push or a store call that threw
FailureOutcomes == {"error", "threw", "Failed to send message"}

\* C7: in a run of a scheduled batch trigger in which only message sends
\* fail, the loop is not left early: every row is processed, and every user
\* whose send did not fail gets the outcome of a run without failures.
C7_SendFailureIsolated ==
    [][(last'.op \in Triggers /\ \A u \in UserIds : last'.faults[u] \in {"ok", "send"})
          => /\ ~last'.aborted
             /\ Len(last'.results) = Len(users)
             /\ \A k \in 1..Len(users) :
                   last'.faults[users[k].userId] = "ok"
                   => last'.results[k] = UnfailedResults(last'.op)[k]]_vars

C7_Witness ==
    /\ last.op \in Triggers
    /\ Len(last.results) = 2
    /\ last.faults[last.results[1].userId] = "send"
    /\ last.results[1].outcome \in FailureOutcomes
    /\ last.faults[last.results[2].userId] = "ok"
    /\ last.results[2].outcome \in {"sent", "Success", "SATURDAY_NO_RESPONSE", "SATURDAY_START"}
    /\ \E j \in 1..Len(out) : out[j].to = last.results[2].userId
    /\ \A j \in 1..Len(out) : out[j].to # last.results[1].userId

\* C8: every scheduled batch trigger returns a summary with total, sent,
\* skipped and error counts in which every user is counted once, and a user
\* whose message send threw is counted under errors.
C8_SummaryCounts ==
    last.op \in Triggers
    => /\ {"totalUsers", "sentCount", "skippedCount", "errorCount"} \subseteq DOMAIN last.summary
       /\ last.summary.totalUsers = Len(users)
       /\ last.summary.sentCount + last.summary.skippedCount + last.summary.errorCount
             = last.summary.totalUsers
       /\ last.summary.errorCount
             >= Cardinality({ k \in 1..Len(last.results) :
                                /\ last.faults[last.results[k].userId] = "send"
                                /\ last.results[k].outcome \in FailureOutcomes })

\* C9: a store call that fails while a batch trigger processes one user is
\* caught for that user and recorded as an error in the summary of the batch,
\* and the remaining users are still processed.
C9_StoreFailureIsolated ==
    (/\ last.op \in Triggers
     /\ \E k \in 1..Len(last.results) :
           /\ last.faults[last.results[k].userId] \in {"read", "write"}
           /\ last.results[k].outcome \in FailureOutcomes)
    => /\ ~last.aborted
       /\ Len(last.results) = Len(users)
       /\ "errorCount" \in DOMAIN last.summary
       /\ last.summary.errorCount >= 1

\* C10: a run of a scheduled trigger right after a run of the same trigger on
\* the same day leaves every row of the Users sheet as the first run left it.
C10_SecondRunKeepsUsers ==
    [][(last'.op \in Triggers /\ last'.again /\ now' = now) => users' = users]_vars

\* C11: when events and triggers are handled one at a time and no collaborator
\* fails, the Answers sheet never holds two non-skipped rows with the same
\* user, week and day.
C11_OneAnswerPerDay ==
    \A j, k \in 1..Len(answers) :
        (/\ j < k
         /\ answers[j].skipped = FALSE /\ answers[k].skipped = FALSE
         /\ answers[j].userId = answers[k].userId
         /\ answers[j].week = answers[k].week)
        => answers[j].day # answers[k].day

\* the values of the status column the specification lists
Statuses ==
    {"new", "idle", "waiting_monday", "waiting_theme", "waiting_answer", "active",
     "saturday_showed_record"}

\* C12: in every reachable state the status of every row of the Users sheet is
\* one of new, idle, waiting_monday, waiting_theme, waiting_answer, active,
\* saturday_showed_record.
C12_StatusClosed == \A k \in 1..Len(users) : users[k].status \in Statuses

C12_Witness ==
    /\ last.op = "postback"
    /\ last.action = "show_record"
    /\ last.was = "waiting_answer"
    /\ StatusOf(users, last.user) = "saturday_showed_record"

\* C13: in every reachable state a row of the Users sheet with a non-empty
\* currentWeek has a non-empty currentTheme, whatever postback payloads were
\* handled (select_theme with a theme parameter or without one).
C13_WeekOnlyWithTheme ==
    \A k \in 1..Len(users) : users[k].currentWeek # "" => users[k].currentTheme # ""

\* C14: in every reachable state the currentTheme of every row of the Users
\* sheet is empty or one of SELF, CREATION, FAMILY, whatever theme value the
\* select_theme postbacks carried.
C14_ThemeKnown ==
    \A k \in 1..Len(users) : users[k].currentTheme \in THEME_MAP \cup {""}

SkipReasons ==
    {"Already answered today", "Status is not active or waiting_answer",
     "Already sent today", "No theme set", "No question found"}

\* the row after the daily question o[j] was sent to its user
Asked(row, o, j) ==
    [row EXCEPT !.status = "waiting_answer", !.lastQuestionId = o[j].arg,
                !.lastActive = now]

\* C16: the daily-question step changes a row of the Users sheet only when it
\* pushed a question to that user, and then sets status waiting_answer,
\* lastQuestionId to the question pushed and lastActive to today; on every
\* skip path it pushes nothing, leaves the row unchanged and returns one of
\* the skip reasons.
C16_DailyFrame ==
    [][/\ (last'.op = "daily")
          => /\ Len(users') = Len(users)
             /\ \A k \in 1..Len(users) :
                   LET asked == QuestionsTo(out', users[k].userId)
                   IN  IF last'.results[k].outcome = "Success"
                       THEN /\ Cardinality(asked) = 1
                            /\ \A j \in asked : users'[k] = Asked(users[k], out', j)
                       ELSE /\ asked = {}
                            /\ users'[k] = users[k]
                            /\ last'.results[k].outcome \in SkipReasons
       /\ (last'.op = "postback" /\ last'.action = "start_question")
          => /\ Len(users') = Len(users)
             /\ \A k \in 1..Len(users) :
                   LET asked == QuestionsTo(out', users[k].userId)
                   IN  IF asked = {} THEN users'[k] = users[k]
                       ELSE /\ Cardinality(asked) = 1
                            /\ \A j \in asked : users'[k] = Asked(users[k], out', j)]_vars

C16_Witness ==
    /\ last.op = "daily"
    /\ \E k \in 1..Len(users) :
          /\ last.results[k].outcome = "Success"
          /\ last.before[k].status = "active"
          /\ last.before[k].lastQuestionId = ""
          /\ users[k].status = "waiting_answer"
          /\ users[k].lastActive = now
          /\ \E j \in QuestionsTo(out, users[k].userId) : users[k].lastQuestionId = out[j].arg

\* a row of a user who did not answer the question of an earlier day and for
\* whom a question of today exists
Missed(row) ==
    /\ row.status = "waiting_answer"
    /\ row.lastActive < now
    /\ row.currentTheme # ""
    /\ ~AnsweredToday(row.userId)
    /\ Len(MatchingQuestions(row.currentTheme, DayString(now))) > 0

\* C17: for a user in waiting_answer whose pending question was sent on an
\* earlier day, with a theme, no answer of today and a question for (theme,
\* today), the daily-question trigger pushes one question of today, stores
\* its id as lastQuestionId and leaves the status waiting_answer.
C17_MissedQuestionResent ==
    [][(last'.op = "daily")
          => \A k \in 1..Len(users) :
                Missed(users[k])
                => LET asked == QuestionsTo(out', users[k].userId)
                       today == MatchingQuestions(users[k].currentTheme, DayString(now))
                   IN  /\ Cardinality(asked) = 1
                       /\ \A j \in asked :
                             /\ \E q \in 1..Len(today) : today[q].QuestionID = out'[j].arg
                             /\ users'[k].lastQuestionId = out'[j].arg
                       /\ users'[k].status = "waiting_answer"
                       /\ last'.results[k].outcome = "Success"]_vars

C17_Witness ==
    /\ last.op = "daily"
    /\ \E k \in 1..Len(users) :
          /\ last.before[k].status = "waiting_answer"
          /\ last.before[k].lastActive < now
          /\ last.before[k].lastQuestionId \notin {"", users[k].lastQuestionId}
          /\ users[k].status = "waiting_answer"
          /\ users[k].lastActive = now
          /\ QuestionsTo(out, users[k].userId) # {}

\* C18: every text message and every postback of a user is answered with at
\* least one message sent to that user, whatever the status of the user and
\* the action of the postback.
C18_AlwaysAnswered ==
    [][\A u \in UserIds :
          (last'.op \in {"text", "postback"} /\ last'.user = u)
          => \E k \in 1..Len(out') : out'[k].to = u]_vars

\* the rows the end-of-week review processes
Reviewed(row) == row.status \in {"active", "waiting_answer"} /\ row.currentTheme # ""

\* some message was sent to userId
SentTo(o, userId) == \E j \in 1..Len(o) : o[j].to = userId

\* C19: whether or not the template an operation looks up is in the Messages
\* sheet, the operation sends a message and makes its state transition: the
\* welcome reply sets waiting_theme or waiting_monday, the weekly theme prompt
\* sets waiting_theme for every eligible user, the end-of-week review updates
\* noResponseWeek, and the start_now postback sets waiting_theme.
C19_FallbackSameTransition ==
    [][/\ \A u \in UserIds :
             (/\ last'.op = "text" /\ last'.user = u
              /\ StatusOf(users, u) \in {"", "new", "idle", "waiting_monday"})
             => /\ SentTo(out', u)
                /\ StatusOf(users', u)
                      = IF getDay(now) = 1 THEN "waiting_theme" ELSE "waiting_monday"
       /\ (last'.op = "monday")
             => \A k \in 1..Len(users) :
                   MondayEligible(users[k])
                   => SentTo(out', users[k].userId) /\ users'[k].status = "waiting_theme"
       /\ (last'.op = "saturday")
             => \A k \in 1..Len(users) :
                   Reviewed(users[k])
                   => /\ SentTo(out', users[k].userId)
                      /\ users'[k].noResponseWeek
                            = IF WeekAnswers(users[k]) = {}
                              THEN users[k].noResponseWeek + 1 ELSE 0
       /\ \A u \in UserIds :
             (last'.op = "postback" /\ last'.user = u /\ last'.action = "start_now")
             => /\ SentTo(out', u)
                /\ StatusOf(users', u)
                      = IF StatusOf(users, u) = "" THEN "" ELSE "waiting_theme"]_vars

\* the columns a call sets before it saves the row
SetBy(call) ==
    IF call = "status" THEN {"status", "lastActive"}
    ELSE IF call = "theme" THEN {"status", "currentTheme", "currentWeek", "lastActive"}
    ELSE {"noResponseWeek", "lastQuestionId"}

\* the event of handler h handled alone on the sheets S
Handled(S, h) ==
    IF h.event.type = "text" THEN handleTextMessage(S, h.user, h.event.text)
    ELSE handlePostback(S, h.user, h.event, 0)

\* the sheets as the webhook call in progress found them
FlightStore ==
    [users |-> flight.users, answers |-> flight.answers, insights |-> insights,
     out |-> <<>>]

\* C20: the handlers of two events of one user are not kept apart: a handler
\* saves the whole row as it read it, so every column it does not set goes
\* back to the value of its read, whatever the other handler saved in between
\* (the state in which the final row shows only one of the two transitions
\* is reachable: C20_Witness).
C20_SaveWritesSnapshot ==
    [][\A j \in 1..Len(flight.ops) :
          (/\ Len(flight'.ops) = Len(flight.ops)
           /\ flight.ops[j].snap # <<>>
           /\ flight'.ops[j].snap = <<>>)
          => LET h == flight.ops[j]
                 i == FindRow(users, h.user)
             IN  \A c \in DOMAIN users[i] \ SetBy(Head(h.todo).call) :
                     users'[i][c] = h.snap[1][c]]_vars

\* both handlers are done, each of the two events alone changes the row, and
\* the row is the one of a single event handled alone, not the one of the two
\* events handled one after the other in either order
C20_Witness ==
    /\ Idle
    /\ Len(flight.ops) = 2
    /\ LET h1 == flight.ops[1]
           h2 == flight.ops[2]
           A  == Handled(FlightStore, h1)
           B  == Handled(FlightStore, h2)
           AB == Handled(A, h2)
           BA == Handled(B, h1)
       IN  /\ A.users # flight.users
           /\ B.users # flight.users
           /\ users \in {A.users, B.users}
           /\ users \notin {AB.users, BA.users}

\* C21: in every reachable state the Users sheet holds at most one row of a
\* user id, also when the handlers of two first events of one user run
\* together.
C21_OneRowPerUser ==
    \A j, k \in 1..Len(users) : users[j].userId = users[k].userId => j = k

\* C22: the first event of a user, a text message or a postback, leaves a row
\* of that user in the Users sheet, and no operation removes the row of a
\* user.
C22_RowOnFirstEvent ==
    [][/\ \A u \in UserIds :
             (last'.op \in {"text", "postback"} /\ last'.user = u)
             => FindRow(users', u) # 0
       /\ \A u \in UserIds : FindRow(users, u) # 0 => FindRow(users', u) # 0]_vars

\* C23: the show_record postback of a user who is active or waiting_answer
\* and has an answer of the current week is answered with the transcript and
\* sets the status saturday_showed_record; for a user in another status, or
\* without an answer of the week, it does not set saturday_showed_record.
C23_ShowRecord ==
    [][\A u \in UserIds :
          (last'.op = "postback" /\ last'.user = u /\ last'.action = "show_record")
          => IF /\ StatusOf(users, u) \in {"active", "waiting_answer"}
                /\ getWeeklyAnswerRows(Store, u) # <<>>
             THEN /\ out' = << Msg(u, "reply", "TRANSCRIPT", "") >>
                  /\ StatusOf(users', u) = "saturday_showed_record"
             ELSE StatusOf(users', u) = "saturday_showed_record"
                     => StatusOf(users, u) = "saturday_showed_record"]_vars

\* C24: the later postback is answered with the deferral message and sets
\* the status of the user's row to waiting_monday, whatever the status was.
C24_Later ==
    [][\A u \in UserIds :
          (last'.op = "postback" /\ last'.user = u /\ last'.action = "later")
          => /\ out' = << Msg(u, "reply", "LATER", "") >>
             /\ FindRow(users, u) # 0
                   => users' = [users EXCEPT ![FindRow(users, u)].status = "waiting_monday",
                                             ![FindRow(users, u)].lastActive = now]]_vars

C24_Witness ==
    /\ last.op = "postback"
    /\ last.action = "later"
    /\ last.was = "waiting_answer"
    /\ StatusOf(users, last.user) = "waiting_monday"
    /\ out = << Msg(last.user, "reply", "LATER", "") >>

\* the week identifiers of the answers of userId dated in the month of now
MonthWeeks(userId) ==
    { answers[j].week : j \in { i \in 1..Len(answers) :
                                   /\ answers[i].userId = userId
                                   /\ MonthString(answers[i].timestamp) = MonthString(now) } }

\* C25: the monthly eligibility check is true for a user exactly when the
\* user's answers of the current month carry at least two distinct week
\* identifiers; with one identifier, or no answer of the month, it is false
\* and the monthly run skips the user.
C25_MonthlyEligibility ==
    /\ \A u \in UserIds :
          hasEnoughMonthlyData(Store, u) <=> Cardinality(MonthWeeks(u)) >= 2
    /\ (last.op = "monthly")
          => \A k \in 1..Len(last.results) :
                (last.results[k].outcome = "skipped")
                <=> Cardinality(MonthWeeks(last.results[k].userId)) < 2

C25_Witness ==
    /\ last.op = "monthly"
    /\ \E k \in 1..Len(last.results) :
          /\ last.results[k].outcome = "skipped"
          /\ Cardinality(MonthWeeks(last.results[k].userId)) = 1
          /\ Cardinality({ j \in 1..Len(answers) :
                             /\ answers[j].userId = last.results[k].userId
                             /\ MonthString(answers[j].timestamp) = MonthString(now) }) >= 2

\* the MonthlyInsights rows of userId that the step to the next state adds
NewInsights(userId) ==
    { j \in (Len(insights) + 1)..Len(insights') : insights'[j].UserID = userId }

\* C26: in a run of the monthly summary an eligible user whose push succeeds
\* is pushed one text and gets exactly one insight row, of that user, the
\* current month and the text pushed; an ineligible user, and a user whose
\* push fails, gets no insight row.
C26_InsightPersisted ==
    [][(last'.op = "monthly")
          => /\ SubSeq(insights', 1, Len(insights)) = insights
             /\ \A k \in 1..Len(users) :
                   LET u      == users[k].userId
                       pushes == { j \in 1..Len(out') : out'[j].to = u /\ out'[j].via = "push" }
                   IN  IF Cardinality(MonthWeeks(u)) >= 2 /\ last'.faults[u] = "ok"
                       THEN /\ Cardinality(pushes) = 1
                            /\ Cardinality(NewInsights(u)) = 1
                            /\ \A j \in NewInsights(u), m \in pushes :
                                  /\ insights'[j].Month = MonthString(now)
                                  /\ insights'[j].AIInsight = out'[m].id
                       ELSE /\ NewInsights(u) = {}
                            /\ pushes = {}]_vars

C26_Witness ==
    /\ last.op = "monthly"
    /\ \E k \in 1..Len(last.results) :
          /\ last.results[k].outcome = "sent"
          /\ last.faults[last.results[k].userId] = "ok"
          /\ Len(insights) = 1
          /\ insights[1].UserID = last.results[k].userId
          /\ insights[1].Month = "2025-01"
          /\ \E m \in 1..Len(out) : out[m].to = insights[1].UserID /\ out[m].id = "AI_SUMMARY"

\* C27: when the summarizer throws, the insight generator returns the fixed
\* apology text (the template AI_ERROR_MONTHLY, or the built-in text when the
\* template is missing) and the monthly run goes on as with a summary: the
\* user is pushed that text and counted as sent, and the loop is not left.
C27_SummarizerFailure ==
    [][(last'.op = "monthly" /\ last'.ai)
          => /\ ~last'.aborted
             /\ Len(last'.results) = Len(users)
             /\ \A k \in 1..Len(users) :
                   (Cardinality(MonthWeeks(users[k].userId)) >= 2
                      /\ last'.faults[users[k].userId] = "ok")
                   => /\ last'.results[k].outcome = "sent"
                      /\ \E m \in 1..Len(out') :
                            /\ out'[m].to = users[k].userId
                            /\ out'[m].id = IF HasMessage("AI_ERROR_MONTHLY")
                                            THEN "AI_ERROR_MONTHLY"
                                            ELSE "TEXT_AI_ERROR_MONTHLY"]_vars

C27_Witness ==
    /\ last.op = "monthly"
    /\ last.ai
    /\ ~HasMessage("AI_ERROR_MONTHLY")
    /\ \E k \in 1..Len(last.results) :
          /\ last.results[k].outcome = "sent"
          /\ \E m \in 1..Len(out) :
                out[m].to = last.results[k].userId /\ out[m].id = "TEXT_AI_ERROR_MONTHLY"

\* C28: the Answers sheet changes only by a text message of a user stored as
\* waiting_answer, which appends one row of that user; every other event and
\* every trigger leaves the sheet as it is, and no step changes or removes a
\* row already there.
C28_AnswersAppendOnly ==
    [][/\ Len(answers') >= Len(answers)
       /\ SubSeq(answers', 1, Len(answers)) = answers
       /\ (answers' # answers)
             => /\ last'.op = "text"
                /\ StatusOf(users, last'.user) = "waiting_answer"
                /\ Len(answers') = Len(answers) + 1
                /\ answers'[Len(answers')].userId = last'.user]_vars

C28_Witness ==
    /\ last.op = "text"
    /\ last.was = "waiting_answer"
    /\ Len(answers) = 2
    /\ answers[1].userId = last.user
    /\ answers[1].timestamp < now
    /\ answers[2].userId = last.user
    /\ answers[2].timestamp = now

\* reference table: the Monday that begins ISO week 1 of each year, as days
\* from January 1st of that year
IsoWeekOne ==
    [y \in 2019..2028 |->
        DaysBeforeYear(y) + CASE y = 2019 -> -1 [] y = 2020 -> -2 [] y = 2021 -> 3
                              [] y = 2022 -> 2  [] y = 2023 -> 1  [] y = 2024 -> 0
                              [] y = 2025 -> -2 [] y = 2026 -> -3 [] y = 2027 -> 3
                              [] y = 2028 -> 2]

\* the ISO-8601 week-numbering year of day d
IsoYear(d) ==
    LET y == getFullYear(d)
    IN  IF d >= IsoWeekOne[y + 1] THEN y + 1
        ELSE IF d < IsoWeekOne[y] THEN y - 1 ELSE y

\* the ISO-8601 week number of day d
IsoWeek(d) == ((d - IsoWeekOne[IsoYear(d)]) \div 7) + 1

WeekLabel(year, week) ==
    ToString(year) \o "-W" \o (IF week < 10 THEN "0" ELSE "") \o ToString(week)

\* C29: getWeekNumber returns the ISO-8601 week number: 1 for 2024-01-01,
\* 52 for 2023-12-31, and for every date of the range the number of the
\* reference table, which is also the number in the week string a theme
\* selection stores on that date.
C29_IsoWeekNumber ==
    /\ getWeekNumber(DaysBeforeYear(2024)) = 1
    /\ getWeekNumber(DaysBeforeYear(2024) - 1) = 52
    /\ getWeekNumber(now) = IsoWeek(now)
    /\ \A k \in 1..Len(users) :
          users[k].currentWeek # ""
          => users[k].currentWeek = WeekLabel(getFullYear(now), IsoWeek(now))

C29_Witness ==
    /\ now = DaysBeforeYear(2024) - 1
    /\ getDay(now) = 0
    /\ last.op = "postback"
    /\ last.action = "select_theme"
    /\ Len(users) = 1
    /\ users[1].currentWeek = "2023-W52"

\* C30: after a run of the Monday theme prompt with every send succeeding no
\* row is left with status active or waiting_answer and a currentWeek other
\* than the week string of that Monday.
C30_WeekRestarts ==
    [][(last'.op = "monday" /\ last'.errors = 0 /\ ~last'.aborted)
          => \A k \in 1..Len(users') :
                users'[k].status \in {"active", "waiting_answer"}
                => users'[k].currentWeek = WeekString(now)]_vars

\* C31: with events and triggers handled one at a time and no collaborator
\* failing, no user is pushed more than one daily question on one calendar
\* day.
C31_OneQuestionPerDay ==
    \A u \in UserIds : last.asked[u] <= 1

\* C32: in every reachable state a row of the Users sheet with status active
\* or waiting_answer has a non-empty currentTheme.
C32_ThemeWhenActive ==
    \A k \in 1..Len(users) :
        users[k].status \in {"active", "waiting_answer"} => users[k].currentTheme # ""

\* C33: an inbound event is handled at most once: also when a call fails
\* part-way through its handler, the event appends at most one row to the
\* Answers sheet and changes the status of its user at most once.
C33_HandledOnce ==
    /\ Len(answers) <= Len(flight.answers) + 1
    /\ flight.moves <= 1

\* C34: when an event of a user has written the user's row after a running
\* theme-prompt or review batch read it, the batch's save of that row keeps
\* what the event wrote: lastQuestionId, and status and noResponseWeek where
\* the batch does not set the cell itself (the theme prompt sets status, the
\* review sets noResponseWeek).
C34_BatchKeepsEventWrites ==
    [][(flight.batch # "" /\ flight'.batch = flight.batch /\ flight'.at = flight.at + 1)
          => LET k == flight.at
             IN  (users[k] # flight.users[k] /\ users'[k] # users[k])
                 => /\ users'[k].lastQuestionId = users[k].lastQuestionId
                    /\ (flight.batch = "saturday") => users'[k].status = users[k].status
                    /\ (flight.batch = "monday")
                          => users'[k].noResponseWeek = users[k].noResponseWeek]_vars

\* C35: when the push to a user throws inside the theme prompt, the daily
\* question or the end-of-week review, the trigger leaves the row of that
\* user as it was: status, lastQuestionId, lastActive, noResponseWeek and
\* every other cell.
C35_FailedPushKeepsRow ==
    [][(last'.op \in {"monday", "daily", "saturday"})
          => /\ Len(users') = Len(users)
             /\ \A k \in 1..Len(users) :
                   last'.faults[users[k].userId] = "send" => users'[k] = users[k]]_vars

C35_Witness ==
    /\ last.op = "saturday"
    /\ \E k \in 1..Len(users) :
          /\ last.faults[users[k].userId] = "send"
          /\ last.results[k].outcome = "error"
          /\ users[k].status \in {"active", "waiting_answer"}
          /\ users[k].noResponseWeek = 0
          /\ \A j \in 1..Len(out) : out[j].to # users[k].userId

\* the day tokens, Sunday first
DayTokens == <<"SUN", "MON", "TUE", "WED", "THU", "FRI", "SAT">>

\* C36: the row a text reply appends to the Answers sheet carries the
\* currentTheme and currentWeek stored for the user, the token of today and
\* the user's lastQuestionId as questionId; after the reply the user's
\* lastQuestionId is empty and the status is active.
C36_AnswerFields ==
    [][\A u \in UserIds :
          (last'.op = "text" /\ last'.user = u /\ Len(answers') = Len(answers) + 1)
          => LET row == RowOf(users, u)
                 a   == answers'[Len(answers')]
             IN  /\ a.userId = u
                 /\ a.theme = row.currentTheme
                 /\ a.week = row.currentWeek
                 /\ a.day = DayTokens[getDay(now) + 1]
                 /\ row.lastQuestionId # ""
                 /\ a.questionId = row.lastQuestionId
                 /\ a.answer \in Texts
                 /\ RowOf(users', u).lastQuestionId = ""
                 /\ RowOf(users', u).status = "active"]_vars

C36_Witness ==
    /\ last.op = "text"
    /\ last.was = "waiting_answer"
    /\ Len(answers) >= 1
    /\ answers[Len(answers)].questionId = "Q_SELF_TUE_1"
    /\ answers[Len(answers)].day = "TUE"
    /\ answers[Len(answers)].theme = "SELF"
    /\ answers[Len(answers)].week = RowOf(users, last.user).currentWeek
    /\ RowOf(users, last.user).lastQuestionId = ""
    /\ RowOf(users, last.user).status = "active"

\* C37: the week of every row of the Answers sheet is the week string of the
\* date the answer was received.
C37_AnswerWeekIsCurrent ==
    \A k \in 1..Len(answers) : answers[k].week = WeekString(answers[k].timestamp)

\* C38: a text message of a user stored as waiting_theme or active, and a
\* how_to_play postback of any user, are answered with one reply and leave
\* the Users sheet and the Answers sheet as they were.
C38_ReplyOnly ==
    [][(\/ (last'.op = "text"
               /\ StatusOf(users, last'.user) \in {"waiting_theme", "active"})
        \/ (last'.op = "postback" /\ last'.action = "how_to_play"))
          => /\ users' = users
             /\ answers' = answers
             /\ Len(out') = 1
             /\ out'[1].to = last'.user
             /\ out'[1].via = "reply"]_vars

C38_Witness ==
    /\ last.op = "text"
    /\ last.was = "active"
    /\ RowOf(users, last.user).status = "active"
    /\ RowOf(users, last.user).lastActive < now
    /\ Len(out) = 1
    /\ out[1].id = "ACK_ACTIVE"

\* the dates compared with today: the year before, not before the first date
\* of the specification, and the six days after
NearDates ==
    { d \in (now - 371)..(now + 6) : d >= CalendarFirst }

\* C39: two dates get the same week string exactly when they lie in the same
\* ISO week (Monday to Sunday), also where the week straddles or adjoins the
\* turn of a year.
C39_WeekStringPerIsoWeek ==
    \A d \in NearDates :
        (WeekString(d) = WeekString(now))
        <=> (IsoYear(d) = IsoYear(now) /\ IsoWeek(d) = IsoWeek(now))

\* the documented waits after the 1st, 2nd, ... failed attempt
BackoffTable == <<1000, 2000, 4000, 5000, 5000, 5000, 5000>>

\* a call of safeLoadInfo as far as it has come: never more than maxRetries
\* attempts, the k-th wait min(1000 * 2^(k-1), 5000) ms, true returned by the
\* first attempt that succeeds, the error of the last attempt thrown after
\* maxRetries failures and not before
LoadAsClaimed ==
    LET load == flight.load
    IN  (load.phase # "idle")
        => /\ load.attempt <= load.maxRetries
           /\ \A k \in 1..Len(load.waits) : load.waits[k] = BackoffTable[k]
           /\ (load.phase = "loading")
                 => Len(load.errors) = load.attempt - 1 /\ Len(load.waits) = load.attempt - 1
           /\ (load.phase = "waiting")
                 => Len(load.errors) = load.attempt /\ Len(load.waits) = load.attempt
           /\ (load.phase = "returned")
                 => /\ load.result = "true"
                    /\ Len(load.errors) = load.attempt - 1
                    /\ Len(load.waits) = load.attempt - 1
           /\ (load.phase = "threw")
                 => /\ load.attempt = load.maxRetries
                    /\ Len(load.errors) = load.maxRetries
                    /\ Len(load.waits) = load.maxRetries - 1
                    /\ load.result = load.errors[load.maxRetries]

\* C40: safeLoadInfo(maxRetries) always terminates: it makes at most
\* maxRetries attempts, returns true as soon as one succeeds, waits
\* min(1000 * 2^(k-1), 5000) ms after the k-th failed attempt, and throws the
\* last error once all maxRetries attempts have failed.
C40_LoadTerminates ==
    /\ []LoadAsClaimed
    /\ (flight.load.phase # "idle") ~> (flight.load.phase \in {"returned", "threw"})

C40_Witness ==
    /\ flight.load.phase = "threw"
    /\ flight.load.maxRetries = 5
    /\ flight.load.attempt = 5
    /\ flight.load.waits = <<1000, 2000, 4000, 5000>>
    /\ flight.load.errors = <<"status 503", "status 503", "timeout", "timeout", "status 403">>
    /\ flight.load.result = "status 403"

====
